---------------------------- MODULE Spec2Model ----------------------------
(***************************************************************************)
(* Model of the DSP core of mind-wave-viewer-mobile: the primitive filters *)
(* (src/utils/signalFilters.ts, src/utils/advancedFilters.ts, the          *)
(* professional filters), the EnhancedFilterChain and applyFilter of       *)
(* src/providers/NetworkProvider.tsx, the quality assessors and the        *)
(* viewer's per-channel chains.                                            *)
(*                                                                         *)
(* Numbers.  A JavaScript number is modelled as a fixed-point integer: the *)
(* value v stands for v / Scale.  Products and quotients are rounded down  *)
(* to that grid, where IEEE arithmetic rounds to the nearest double.       *)
(* Filter coefficients are numbers like any other.                         *)
(* Frequencies (cutoffs, notch frequencies) are in tenths of a hertz, so   *)
(* that 0.5 Hz is 5; sampling rates are in hertz.                          *)
(***************************************************************************)
EXTENDS Integers, Sequences, FiniteSets, TLC

VARIABLES
    inst,       \* the object under test: a filter or a chain; the heap of filter
                \* objects (SpecChannels); the objects the last applyFilter call
                \* left (SpecCalls); a function's local variables (SpecProfessional)
    fresh,      \* a second instance, constructed anew with the same parameters;
                \* the viewer's filterChains, channel to addresses (SpecChannels)
    phase,      \* position: "run", then "replay" after reset(); or the position
                \* inside the call under way
    calls,      \* number of calls made so far; the loop index (SpecProfessional)
    outs,       \* what inst returned for the inputs fed; the log of calls made
    freshOuts,  \* what fresh returned for the same inputs
    chainCalls, \* the EnhancedFilterChain.process calls made, each with its stage log
    data,       \* argument of a batch call, or the samples fed so far
    config,     \* FilterConfig argument; the sampleRate argument; the test signal
    impl,       \* which module's function is called
    result,     \* value the batch call returned
    called      \* whether the batch call has returned

vars == <<inst, fresh, phase, calls, outs, freshOuts, chainCalls,
          data, config, impl, result, called>>

--------------------------------------------------------------------------
(* Bounds of the model *)

Scale == 1000
MaxCalls == 2
MaxReplay == 2
MaxData == 3
MaxFeed == 7
MaxSamples == 40
MaxRate == 300
MaxApplyCalls == 3
MaxChannelCalls == 3
MaxWavelet == 9
MaxConstant == 370
MaxTone == 30
SettleSamples == 10
MaxProfessional == 110
MaxDetect == 4
MaxCascade == 4
MaxSpike == 10
MaxEstimate == 66
MaxProCalls == 8
MaxProReplay == 2
MaxIIR == 4
MaxArtifact == 3
MaxArrivals == 2
MaxEffectRuns == 4

--------------------------------------------------------------------------
(* Arithmetic on fixed-point numbers *)

Abs(v) == IF v < 0 THEN -v ELSE v

Max(a, b) == IF a > b THEN a ELSE b

Min(a, b) == IF a < b THEN a ELSE b

\* The product c * v of two numbers, rounded down; split so that no intermediate
\* exceeds the result
Mul(c, v) == c * (v \div Scale) + (c * (v % Scale)) \div Scale

\* The number whose value is milli / 1000
Milli(milli) == (milli * Scale) \div 1000

\* The number whose value is the integer n
Num(n) == n * Scale

\* The sum of a sequence, added up by halves to keep the recursion shallow
RECURSIVE Sum(_)
Sum(s) ==
    IF Len(s) = 0 THEN 0
    ELSE IF Len(s) = 1 THEN s[1]
    ELSE LET half == Len(s) \div 2
         IN  Sum(SubSeq(s, 1, half)) + Sum(SubSeq(s, half + 1, Len(s)))

\* "undefined" for an optional member that was never constructed
Undefined == [kind |-> "undefined"]

\* JavaScript's `c.name || default` on a config record: an absent field and 0
\* both give the default
OrDefault(c, name, default) ==
    IF name \in DOMAIN c /\ c[name] # 0 THEN c[name] ELSE default

\* JavaScript's truthiness of an optional boolean flag of a config record
Flag(c, name) == name \in DOMAIN c /\ c[name] = TRUE

--------------------------------------------------------------------------
(* MovingAverageFilter, signalFilters.ts:62-83 *)

MovingAverageFilter_new(windowSize) ==
    [kind |-> "MovingAverageFilter", windowSize |-> windowSize, buffer |-> <<>>]

\* Variant: the sum is divided by the window size, not by the number buffered
MovingAverageFilter_process_fixedDivisor(f, input) ==
    LET pushed == Append(f.buffer, input)
        buffer == IF Len(pushed) > f.windowSize THEN Tail(pushed) ELSE pushed
    IN  [self |-> [f EXCEPT !.buffer = buffer],
         ret  |-> Sum(buffer) \div f.windowSize]

\* Variant: a full buffer drops the sample just pushed instead of the oldest
MovingAverageFilter_process_dropsNewest(f, input) ==
    LET pushed == Append(f.buffer, input)
        buffer == IF Len(pushed) > f.windowSize
                  THEN SubSeq(pushed, 1, Len(pushed) - 1) ELSE pushed
    IN  [self |-> [f EXCEPT !.buffer = buffer],
         ret  |-> Sum(buffer) \div Len(buffer)]

MovingAverageFilter_process(f, input) ==
    LET pushed == Append(f.buffer, input)
        buffer == IF Len(pushed) > f.windowSize THEN Tail(pushed) ELSE pushed
    IN  [self |-> [f EXCEPT !.buffer = buffer],
         ret  |-> Sum(buffer) \div Len(buffer)]

MovingAverageFilter_reset(f) == [f EXCEPT !.buffer = <<>>]

--------------------------------------------------------------------------
(* HighPassFilter, signalFilters.ts:86-108 *)

\* alpha = rc / (rc + dt) with rc = 1/(2 pi cutoff), dt = 1/samplingRate, that is
\* samplingRate / (samplingRate + 2 pi cutoff), with pi taken as 355/113 and the
\* cutoff in tenths of a hertz
SinglePoleAlpha(cutoffFreq, samplingRate) ==
    (Scale * 1130 * samplingRate) \div (1130 * samplingRate + 710 * cutoffFreq)

HighPassFilter_new(cutoffFreq, samplingRate) ==
    [kind |-> "HighPassFilter", alpha |-> SinglePoleAlpha(cutoffFreq, samplingRate),
     previousInput |-> 0, previousOutput |-> 0]

\* Variant: the previous input is not subtracted
HighPassFilter_process_noDifference(f, input) ==
    LET output == Mul(f.alpha, f.previousOutput + input)
    IN  [self |-> [f EXCEPT !.previousInput = input, !.previousOutput = output],
         ret  |-> output]

HighPassFilter_process(f, input) ==
    LET output == Mul(f.alpha, f.previousOutput + input - f.previousInput)
    IN  [self |-> [f EXCEPT !.previousInput = input, !.previousOutput = output],
         ret  |-> output]

HighPassFilter_reset(f) == [f EXCEPT !.previousInput = 0, !.previousOutput = 0]

--------------------------------------------------------------------------
(* DCBlocker, advancedFilters.ts:4-25 *)

DCBlocker_new(cutoffFreq, samplingRate) ==
    [kind |-> "DCBlocker", alpha |-> SinglePoleAlpha(cutoffFreq, samplingRate),
     x1 |-> 0, y1 |-> 0]

DCBlocker_process(f, input) ==
    LET output == Mul(f.alpha, f.y1 + input - f.x1)
    IN  [self |-> [f EXCEPT !.x1 = input, !.y1 = output], ret |-> output]

DCBlocker_reset(f) == [f EXCEPT !.x1 = 0, !.y1 = 0]

--------------------------------------------------------------------------
(* NotchFilter, signalFilters.ts:111-153 *)

\* The constructor's coefficients b0 = 1/(1+alpha), b1 = -2cos(omega)/(1+alpha),
\* b2 = 1/(1+alpha), a1 = b1, a2 = b2 with omega = 2 pi f/fs and
\* alpha = sin(omega) sinh(ln2/2 * bandwidth * omega/sin(omega)), bandwidth = 2,
\* tabulated in thousandths for the (notchFreq, samplingRate) pairs the model uses
NotchTable(notchFreq, samplingRate) ==
    CASE notchFreq = 500 /\ samplingRate = 250 ->
            [b0 |-> 500, b1 |-> -309, b2 |-> 500, a1 |-> -309, a2 |-> 500]
      [] notchFreq = 600 /\ samplingRate = 250 ->
            [b0 |-> 445, b1 |-> -56, b2 |-> 445, a1 |-> -56, a2 |-> 445]
      [] notchFreq = 500 /\ samplingRate = 256 ->
            [b0 |-> 507, b1 |-> -342, b2 |-> 507, a1 |-> -342, a2 |-> 507]
      [] notchFreq = 600 /\ samplingRate = 256 ->
            [b0 |-> 453, b1 |-> -89, b2 |-> 453, a1 |-> -89, a2 |-> 453]

NotchCoefficients(notchFreq, samplingRate) ==
    LET t == NotchTable(notchFreq, samplingRate)
    IN  [b0 |-> Milli(t.b0), b1 |-> Milli(t.b1), b2 |-> Milli(t.b2),
         a1 |-> Milli(t.a1), a2 |-> Milli(t.a2)]

NotchFilter_new(notchFreq, samplingRate) ==
    LET c == NotchCoefficients(notchFreq, samplingRate)
    IN  [kind |-> "NotchFilter", x1 |-> 0, x2 |-> 0, y1 |-> 0, y2 |-> 0,
         a1 |-> c.a1, a2 |-> c.a2, b0 |-> c.b0, b1 |-> c.b1, b2 |-> c.b2]

\* Variant: both delayed input terms read x1
NotchFilter_process_oneDelay(f, input) ==
    LET output == Mul(f.b0, input) + Mul(f.b1, f.x1) + Mul(f.b2, f.x1)
                  - Mul(f.a1, f.y1) - Mul(f.a2, f.y2)
    IN  [self |-> [f EXCEPT !.x2 = f.x1, !.x1 = input, !.y2 = f.y1, !.y1 = output],
         ret  |-> output]

NotchFilter_process(f, input) ==
    LET output == Mul(f.b0, input) + Mul(f.b1, f.x1) + Mul(f.b2, f.x2)
                  - Mul(f.a1, f.y1) - Mul(f.a2, f.y2)
    IN  [self |-> [f EXCEPT !.x2 = f.x1, !.x1 = input, !.y2 = f.y1, !.y1 = output],
         ret  |-> output]

NotchFilter_reset(f) == [f EXCEPT !.x1 = 0, !.x2 = 0, !.y1 = 0, !.y2 = 0]

--------------------------------------------------------------------------
(* ButterworthFilter, professional filters (unnamed/part_002:4-103) *)

\* The constructor's coefficient vectors [b, a] in thousandths: tan and sqrt
\* evaluated for the (type, cutoff, sampleRate) triples the model uses.
\* lowpass:  c = 1/tan(pi*cutoff/nyquist), a0 = 1 + sqrt2*c + c^2,
\*           b = [1,2,1]/a0, a = [1, (2-2c^2)/a0, (1-sqrt2*c+c^2)/a0]
\* highpass: c = tan(pi*cutoff/nyquist), b = [1,-2,1]/a0,
\*           a = [1, (2c^2-2)/a0, (1-sqrt2*c+c^2)/a0]
\* bandpass: center = sqrt(low*high), b = [1,0,-1]*center,
\*           a = [1, high-low, center^2]      (low, high normalised by nyquist)
ButterworthTable(type, cutoff, sampleRate) ==
    CASE type = "lowpass" /\ cutoff = <<400>> /\ sampleRate = 250 ->
            [b |-> <<435, 869, 435>>, a |-> <<1000, 519, 220>>]
      [] type = "lowpass" /\ cutoff = <<100>> /\ sampleRate = 250 ->
            [b |-> <<46, 92, 46>>, a |-> <<1000, -1307, 492>>]
      [] type = "highpass" /\ cutoff = <<5>> /\ sampleRate = 250 ->
            [b |-> <<982, -1965, 982>>, a |-> <<1000, -1964, 965>>]
      [] type = "bandpass" /\ cutoff = <<5, 400>> /\ sampleRate = 250 ->
            [b |-> <<36, 0, -36>>, a |-> <<1000, 316, 1>>]

ButterworthFilter_new(type, cutoff, sampleRate) ==
    LET t == ButterworthTable(type, cutoff, sampleRate)
    IN  [kind |-> "ButterworthFilter",
         b |-> [i \in 1..Len(t.b) |-> Milli(t.b[i])],
         a |-> [i \in 1..Len(t.a) |-> Milli(t.a[i])],
         x |-> [i \in 1..Len(t.b) |-> 0],
         y |-> [i \in 1..Len(t.a) |-> 0]]

\* arr.unshift(v); arr.pop()
ShiftIn(arr, v) == SubSeq(<<v>> \o arr, 1, Len(arr))

\* Indices are the source's plus one: the feedback loop of the source reads
\* y[i] for i = 1 .. a.length-1 before the new output is shifted in
ButterworthFilter_process(f, input) ==
    LET x == ShiftIn(f.x, input)
        forward == Sum([i \in 1..Len(f.b) |-> Mul(f.b[i], x[i])])
        feedback == Sum([i \in 1..(Len(f.a) - 1) |-> Mul(f.a[i + 1], f.y[i + 1])])
        output == forward - feedback
    IN  [self |-> [f EXCEPT !.x = x, !.y = ShiftIn(f.y, output)], ret |-> output]

\* Variant: only the input history is cleared
ButterworthFilter_reset_inputsOnly(f) ==
    [f EXCEPT !.x = [i \in 1..Len(f.x) |-> 0]]

ButterworthFilter_reset(f) ==
    [f EXCEPT !.x = [i \in 1..Len(f.x) |-> 0], !.y = [i \in 1..Len(f.y) |-> 0]]

--------------------------------------------------------------------------
(* ArtifactDetector, advancedFilters.ts:27-57 *)

ArtifactDetector_new(threshold, windowSize) ==
    [kind |-> "ArtifactDetector", threshold |-> threshold,
     windowSize |-> windowSize, buffer |-> <<>>]

\* Variant: the newest magnitude is compared with the oldest one buffered
ArtifactDetector_detectArtifact_oldest(f, value) ==
    LET pushed == Append(f.buffer, Abs(value))
        buffer == IF Len(pushed) > f.windowSize THEN Tail(pushed) ELSE pushed
        sudden == /\ Len(buffer) >= 2
                  /\ Abs(buffer[Len(buffer)] - buffer[1]) > f.threshold
    IN  [self |-> [f EXCEPT !.buffer = buffer],
         ret  |-> IF sudden THEN TRUE ELSE Abs(value) > f.threshold * 2]

ArtifactDetector_detectArtifact(f, value) ==
    LET pushed == Append(f.buffer, Abs(value))
        buffer == IF Len(pushed) > f.windowSize THEN Tail(pushed) ELSE pushed
        sudden == /\ Len(buffer) >= 2
                  /\ Abs(buffer[Len(buffer)] - buffer[Len(buffer) - 1]) > f.threshold
    IN  [self |-> [f EXCEPT !.buffer = buffer],
         ret  |-> IF sudden THEN TRUE ELSE Abs(value) > f.threshold * 2]

--------------------------------------------------------------------------
(* PowerLineNotchFilter, advancedFilters.ts:91-137 *)

\* The constructor computes the coefficients with the expressions of NotchFilter
PowerLineNotchFilter_new(frequencies, samplingRate) ==
    [kind |-> "PowerLineNotchFilter",
     filters |-> [i \in 1..Len(frequencies) |-> [x1 |-> 0, x2 |-> 0, y1 |-> 0, y2 |-> 0]],
     coefficients |-> [i \in 1..Len(frequencies) |->
                          NotchCoefficients(frequencies[i], samplingRate)]]

\* One pass of the loop body for stage i on the running value `output`
PowerLineStage(filter, coeff, output) ==
    LET res == Mul(coeff.b0, output) + Mul(coeff.b1, filter.x1) + Mul(coeff.b2, filter.x2)
               - Mul(coeff.a1, filter.y1) - Mul(coeff.a2, filter.y2)
    IN  [filter |-> [x1 |-> output, x2 |-> filter.x1, y1 |-> res, y2 |-> filter.y1],
         ret |-> res]

\* Variant: every stage keeps its delay line in the first stage's slot
RECURSIVE PowerLineLoop_sharedState(_, _, _)
PowerLineLoop_sharedState(f, i, output) ==
    IF i > Len(f.filters) THEN [self |-> f, ret |-> output]
    ELSE LET st == PowerLineStage(f.filters[1], f.coefficients[i], output)
         IN  PowerLineLoop_sharedState([f EXCEPT !.filters[1] = st.filter], i + 1, st.ret)

RECURSIVE PowerLineLoop(_, _, _)
PowerLineLoop(f, i, output) ==
    IF i > Len(f.filters) THEN [self |-> f, ret |-> output]
    ELSE LET st == PowerLineStage(f.filters[i], f.coefficients[i], output)
         IN  PowerLineLoop([f EXCEPT !.filters[i] = st.filter], i + 1, st.ret)

PowerLineNotchFilter_process(f, input) == PowerLineLoop(f, 1, input)

--------------------------------------------------------------------------
(* Dispatch on the class of a filter object: f.process(input), f.reset() *)

process(f, input) ==
    CASE f.kind = "MovingAverageFilter" -> MovingAverageFilter_process(f, input)
      [] f.kind = "HighPassFilter" -> HighPassFilter_process(f, input)
      [] f.kind = "NotchFilter" -> NotchFilter_process(f, input)
      [] f.kind = "DCBlocker" -> DCBlocker_process(f, input)
      [] f.kind = "ButterworthFilter" -> ButterworthFilter_process(f, input)
      [] f.kind = "PowerLineNotchFilter" -> PowerLineNotchFilter_process(f, input)

reset(f) ==
    CASE f.kind = "MovingAverageFilter" -> MovingAverageFilter_reset(f)
      [] f.kind = "HighPassFilter" -> HighPassFilter_reset(f)
      [] f.kind = "NotchFilter" -> NotchFilter_reset(f)
      [] f.kind = "DCBlocker" -> DCBlocker_reset(f)
      [] f.kind = "ButterworthFilter" -> ButterworthFilter_reset(f)

--------------------------------------------------------------------------
(* Filter construction from a FilterConfig *)

\* Math.max(1, Math.floor(samplingRate / (highCutoff || 30) / 2)), the cutoff in
\* tenths of a hertz
LowpassWindowSize(cfg) ==
    Max(1, (10 * cfg.samplingRate) \div (2 * OrDefault(cfg, "highCutoff", 300)))

LowpassFromConfig(cfg) == MovingAverageFilter_new(LowpassWindowSize(cfg))

\* Variant: a high-pass filter left behind by an earlier applyFilter call (inst
\* holds the instances of the last call) is used again instead of a new one
HighpassFromConfig_reused(cfg) ==
    LET made == HighPassFilter_new(OrDefault(cfg, "lowCutoff", 5), cfg.samplingRate)
        kept == {i \in 1..Len(inst) : /\ inst[i].kind = "HighPassFilter"
                                      /\ inst[i].alpha = made.alpha}
    IN  IF kept # {} THEN inst[CHOOSE i \in kept : TRUE] ELSE made

HighpassFromConfig(cfg) ==
    HighPassFilter_new(OrDefault(cfg, "lowCutoff", 5), cfg.samplingRate)

NotchFromConfig(cfg) ==
    NotchFilter_new(OrDefault(cfg, "notchFreq", 500), cfg.samplingRate)

--------------------------------------------------------------------------
(* EnhancedFilterChain, NetworkProvider.tsx:264-338 *)

\* The switch on config.type: no case for 'none', 'bandpass' or 'advanced'
\* Variant: the types 'bandpass' and 'advanced' get a high-pass main filter
EnhancedFilterChain_mainFilter_bandpassBuilt(cfg) ==
    CASE cfg.type = "lowpass" -> LowpassFromConfig(cfg)
      [] cfg.type \in {"highpass", "bandpass", "advanced"} -> HighpassFromConfig(cfg)
      [] cfg.type = "notch" -> NotchFromConfig(cfg)
      [] OTHER -> Undefined

EnhancedFilterChain_mainFilter(cfg) ==
    CASE cfg.type = "lowpass" -> LowpassFromConfig(cfg)
      [] cfg.type = "highpass" -> HighpassFromConfig(cfg)
      [] cfg.type = "notch" -> NotchFromConfig(cfg)
      [] OTHER -> Undefined

\* constructor and initializeFilters
EnhancedFilterChain_new(cfg) ==
    [kind |-> "EnhancedFilterChain",
     config |-> cfg,
     dcBlocker |-> IF Flag(cfg, "enableDCBlock")
                   THEN DCBlocker_new(1, cfg.samplingRate) ELSE Undefined,
     artifactDetector |-> IF Flag(cfg, "enableArtifactRemoval")
                          THEN ArtifactDetector_new(Num(200), 10) ELSE Undefined,
     powerLineFilter |-> IF Flag(cfg, "enablePowerLineRemoval")
                         THEN PowerLineNotchFilter_new(<<500, 600>>, cfg.samplingRate)
                         ELSE Undefined,
     mainFilter |-> EnhancedFilterChain_mainFilter(cfg)]

\* One optional stage of process: `if (this.member) output = this.member.process(output)`.
\* r is the call so far: the chain, the running output and the log of stages run.
ChainStage(r, member) ==
    IF r.self[member] = Undefined THEN r
    ELSE LET p == process(r.self[member], r.ret)
         IN  [r EXCEPT !.self[member] = p.self, !.ret = p.ret,
                       !.trace = Append(r.trace,
                                        [stage |-> member, in |-> r.ret, out |-> p.ret])]

\* Step 4: `if (this.artifactDetector && this.artifactDetector.detectArtifact(output))
\* output = 0`
\* Variant: a flagged sample is passed on instead of being replaced by 0
ChainArtifactStage_keepsSample(r) ==
    IF r.self.artifactDetector = Undefined THEN r
    ELSE LET d == ArtifactDetector_detectArtifact(r.self.artifactDetector, r.ret)
         IN  [r EXCEPT !.self.artifactDetector = d.self,
                       !.flagged = d.ret,
                       !.trace = Append(r.trace,
                                        [stage |-> "artifactDetector", in |-> r.ret,
                                         out |-> r.ret])]

\* Variant: the detector's newest buffered magnitude is overwritten with the
\* 0 that replaces a flagged sample
ChainArtifactStage_buffersReplaced(r) ==
    IF r.self.artifactDetector = Undefined THEN r
    ELSE LET d == ArtifactDetector_detectArtifact(r.self.artifactDetector, r.ret)
             out == IF d.ret THEN 0 ELSE r.ret
             n == Len(d.self.buffer)
             buffer == IF d.ret /\ n > 0 THEN [d.self.buffer EXCEPT ![n] = 0]
                       ELSE d.self.buffer
         IN  [r EXCEPT !.self.artifactDetector = [d.self EXCEPT !.buffer = buffer],
                       !.ret = out,
                       !.flagged = d.ret,
                       !.trace = Append(r.trace,
                                        [stage |-> "artifactDetector", in |-> r.ret,
                                         out |-> out])]

ChainArtifactStage(r) ==
    IF r.self.artifactDetector = Undefined THEN r
    ELSE LET d == ArtifactDetector_detectArtifact(r.self.artifactDetector, r.ret)
             out == IF d.ret THEN 0 ELSE r.ret
         IN  [r EXCEPT !.self.artifactDetector = d.self, !.ret = out,
                       !.flagged = d.ret,
                       !.trace = Append(r.trace,
                                        [stage |-> "artifactDetector", in |-> r.ret,
                                         out |-> out])]

\* Variant: the power-line notch bank runs before the DC blocker
EnhancedFilterChain_process_notchFirst(c, input) ==
    LET r0 == [self |-> c, ret |-> input, input |-> input, trace |-> <<>>,
               flagged |-> FALSE]
        r1 == ChainStage(r0, "powerLineFilter")
        r2 == ChainStage(r1, "dcBlocker")
        r3 == ChainStage(r2, "mainFilter")
    IN  ChainArtifactStage(r3)

\* process(input): self is the chain afterwards, ret the value returned; input,
\* trace and flagged record what the call did
EnhancedFilterChain_process(c, input) ==
    LET r0 == [self |-> c, ret |-> input, input |-> input, trace |-> <<>>,
               flagged |-> FALSE]
        r1 == ChainStage(r0, "dcBlocker")
        r2 == ChainStage(r1, "powerLineFilter")
        r3 == ChainStage(r2, "mainFilter")
    IN  ChainArtifactStage(r3)

\* reset(): the DC blocker and the main filter; the other two classes have no reset
EnhancedFilterChain_reset(c) ==
    [c EXCEPT !.dcBlocker = IF c.dcBlocker # Undefined THEN DCBlocker_reset(@) ELSE @,
              !.mainFilter = IF c.mainFilter # Undefined THEN reset(@) ELSE @]

--------------------------------------------------------------------------
(* The viewer's per-channel chains, EegWaveformViewer.tsx:391-397.  Objects
   live in a heap (a sequence, an address being an index) so that two chains
   holding the same filter object can be told from two chains holding equal
   ones; address 0 is an absent member. *)

Members == <<"dcBlocker", "artifactDetector", "powerLineFilter", "mainFilter">>

\* Variant: a member is taken from the heap when an object of its class is
\* already there, and constructed only otherwise
AllocMember_sharedInstance(r, c, member) ==
    LET same == {a \in 1..Len(r.heap) : r.heap[a].kind = c[member].kind}
    IN  IF c[member] = Undefined THEN [r EXCEPT !.refs = @ @@ (member :> 0)]
        ELSE IF same # {}
        THEN [r EXCEPT !.refs = @ @@ (member :> CHOOSE a \in same : TRUE)]
        ELSE [heap |-> Append(r.heap, c[member]),
              refs |-> r.refs @@ (member :> Len(r.heap) + 1)]

\* `this.member = new Class(...)` in initializeFilters: the object c[member] is
\* put at a new address, which the chain under construction keeps
AllocMember(r, c, member) ==
    IF c[member] = Undefined THEN [r EXCEPT !.refs = @ @@ (member :> 0)]
    ELSE [heap |-> Append(r.heap, c[member]),
          refs |-> r.refs @@ (member :> Len(r.heap) + 1)]

\* new EnhancedFilterChain(cfg) on a heap: the heap afterwards and the new
\* chain's member addresses
EnhancedFilterChain_alloc(heap, cfg) ==
    LET c == EnhancedFilterChain_new(cfg)
        r0 == [heap |-> heap, refs |-> [config |-> cfg]]
        r1 == AllocMember(r0, c, Members[1])
        r2 == AllocMember(r1, c, Members[2])
        r3 == AllocMember(r2, c, Members[3])
    IN  AllocMember(r3, c, Members[4])

\* The effect of lines 391-397: one new chain per channel, all from filterConfig
RECURSIVE InitializeFilterChains(_, _, _)
InitializeFilterChains(r, channels, cfg) ==
    IF channels = <<>> THEN r
    ELSE LET a == EnhancedFilterChain_alloc(r.heap, cfg)
         IN  InitializeFilterChains(
                 [heap |-> a.heap, chains |-> r.chains @@ (Head(channels) :> a.refs)],
                 Tail(channels), cfg)

\* The chain a channel's entry refers to, with its members read from the heap
ChainAt(heap, refs) ==
    [kind |-> "EnhancedFilterChain", config |-> refs.config]
    @@ [m \in {Members[i] : i \in 1..Len(Members)} |->
            IF refs[m] = 0 THEN Undefined ELSE heap[refs[m]]]

\* The heap after a process call left the chain at refs as the value c
StoreChain(heap, refs, c) ==
    [a \in 1..Len(heap) |->
        IF \E i \in 1..Len(Members) : refs[Members[i]] = a
        THEN c[Members[CHOOSE i \in 1..Len(Members) : refs[Members[i]] = a]]
        ELSE heap[a]]

--------------------------------------------------------------------------
(* applyFilter, NetworkProvider.tsx:341-391 and signalFilters.ts:156-194 *)

\* data.map(value => filter.process(value)) on one filter object
RECURSIVE MapProcess(_, _)
MapProcess(f, values) ==
    IF values = <<>> THEN <<>>
    ELSE LET p == process(f, Head(values))
         IN  <<p.ret>> \o MapProcess(p.self, Tail(values))

\* Variant: the moving average runs before the high-pass
RECURSIVE MapBandpass_lowpassFirst(_, _, _)
MapBandpass_lowpassFirst(hpFilter, lpFilter, values) ==
    IF values = <<>> THEN <<>>
    ELSE LET lp == process(lpFilter, Head(values))
             hp == process(hpFilter, lp.ret)
         IN  <<hp.ret>> \o MapBandpass_lowpassFirst(hp.self, lp.self, Tail(values))

\* data.map(value => lpFilter.process(hpFilter.process(value)))
RECURSIVE MapBandpass(_, _, _)
MapBandpass(hpFilter, lpFilter, values) ==
    IF values = <<>> THEN <<>>
    ELSE LET hp == process(hpFilter, Head(values))
             lp == process(lpFilter, hp.ret)
         IN  <<lp.ret>> \o MapBandpass(hp.self, lp.self, Tail(values))

\* data.map(value => filterChain.process(value)): the calls made on the chain, in
\* order, each with its input, its stage log and the value it returned
RECURSIVE MapChain(_, _)
MapChain(chain, values) ==
    IF values = <<>> THEN <<>>
    ELSE LET p == EnhancedFilterChain_process(chain, Head(values))
         IN  <<[input |-> p.input, trace |-> p.trace, flagged |-> p.flagged,
                ret |-> p.ret]>> \o MapChain(p.self, Tail(values))

\* The chain applyFilter builds for type 'advanced': {...config, enable*: true}
AdvancedChain(cfg) ==
    EnhancedFilterChain_new(
        [enableDCBlock |-> TRUE, enableArtifactRemoval |-> TRUE,
         enablePowerLineRemoval |-> TRUE] @@ cfg)

\* The process calls applyFilter makes on an EnhancedFilterChain
applyFilter_chainCalls(values, cfg) ==
    IF cfg.type = "none" \/ values = <<>> \/ cfg.type # "advanced" THEN <<>>
    ELSE MapChain(AdvancedChain(cfg), values)

\* Variant: only empty input returns early, and a type without a case of its own
\* is filtered as a low-pass
applyFilter_defaultLowpass(values, cfg) ==
    IF values = <<>> THEN values
    ELSE IF cfg.type = "advanced"
    THEN LET cs == applyFilter_chainCalls(values, cfg)
         IN  [i \in 1..Len(cs) |-> cs[i].ret]
    ELSE IF cfg.type = "bandpass"
    THEN MapBandpass(HighpassFromConfig(cfg), LowpassFromConfig(cfg), values)
    ELSE CASE cfg.type = "highpass" -> MapProcess(HighpassFromConfig(cfg), values)
           [] cfg.type = "notch" -> MapProcess(NotchFromConfig(cfg), values)
           [] OTHER -> MapProcess(LowpassFromConfig(cfg), values)

\* Variant: the band-pass path returns outputs only once the moving-average
\* window is full
applyFilter_validOnly(values, cfg) ==
    IF cfg.type = "none" \/ values = <<>> THEN values
    ELSE IF cfg.type = "advanced"
    THEN LET cs == applyFilter_chainCalls(values, cfg)
         IN  [i \in 1..Len(cs) |-> cs[i].ret]
    ELSE IF cfg.type = "bandpass"
    THEN LET all == MapBandpass(HighpassFromConfig(cfg), LowpassFromConfig(cfg), values)
         IN  SubSeq(all, Min(LowpassWindowSize(cfg), Len(all)), Len(all))
    ELSE CASE cfg.type = "lowpass" -> MapProcess(LowpassFromConfig(cfg), values)
           [] cfg.type = "highpass" -> MapProcess(HighpassFromConfig(cfg), values)
           [] cfg.type = "notch" -> MapProcess(NotchFromConfig(cfg), values)
           [] OTHER -> values

\* NetworkProvider.tsx
applyFilter(values, cfg) ==
    IF cfg.type = "none" \/ values = <<>> THEN values
    ELSE IF cfg.type = "advanced"
    THEN LET cs == applyFilter_chainCalls(values, cfg)
         IN  [i \in 1..Len(cs) |-> cs[i].ret]
    ELSE IF cfg.type = "bandpass"
    THEN MapBandpass(HighpassFromConfig(cfg), LowpassFromConfig(cfg), values)
    ELSE CASE cfg.type = "lowpass" -> MapProcess(LowpassFromConfig(cfg), values)
           [] cfg.type = "highpass" -> MapProcess(HighpassFromConfig(cfg), values)
           [] cfg.type = "notch" -> MapProcess(NotchFromConfig(cfg), values)
           [] OTHER -> values

\* signalFilters.ts: no 'advanced' case, which falls to the default branch
applyFilter_signalFilters(values, cfg) ==
    IF cfg.type = "none" \/ values = <<>> THEN values
    ELSE CASE cfg.type = "lowpass" -> MapProcess(LowpassFromConfig(cfg), values)
           [] cfg.type = "highpass" -> MapProcess(HighpassFromConfig(cfg), values)
           [] cfg.type = "bandpass" ->
                MapBandpass(HighpassFromConfig(cfg), LowpassFromConfig(cfg), values)
           [] cfg.type = "notch" -> MapProcess(NotchFromConfig(cfg), values)
           [] OTHER -> values

\* The filter object f after data.map(value => f.process(value))
RECURSIVE Drive(_, _)
Drive(f, values) ==
    IF values = <<>> THEN f
    ELSE Drive(IF f.kind = "EnhancedFilterChain"
               THEN EnhancedFilterChain_process(f, Head(values)).self
               ELSE process(f, Head(values)).self,
               Tail(values))

\* The filter objects one applyFilter call constructs (its local constants), as
\* the call leaves them when it returns
applyFilter_instances(values, cfg, module) ==
    IF cfg.type = "none" \/ values = <<>> THEN <<>>
    ELSE CASE cfg.type = "advanced" /\ module = "NetworkProvider" ->
                <<Drive(AdvancedChain(cfg), values)>>
           [] cfg.type = "bandpass" ->
                <<Drive(HighpassFromConfig(cfg), values),
                  Drive(LowpassFromConfig(cfg),
                        MapProcess(HighpassFromConfig(cfg), values))>>
           [] cfg.type = "lowpass" -> <<Drive(LowpassFromConfig(cfg), values)>>
           [] cfg.type = "highpass" -> <<Drive(HighpassFromConfig(cfg), values)>>
           [] cfg.type = "notch" -> <<Drive(NotchFromConfig(cfg), values)>>
           [] OTHER -> <<>>

--------------------------------------------------------------------------
(* getPresetFilterConfigs, NetworkProvider.tsx:394-434 *)

\* Variant: the 'eeg-band' preset also carries a notch frequency
getPresetFilterConfigs_bandWithNotch(samplingRate) ==
    ("none" :> [type |-> "none", samplingRate |-> samplingRate])
 @@ ("low-noise" :> [type |-> "lowpass", highCutoff |-> 400, samplingRate |-> samplingRate])
 @@ ("dc-remove" :> [type |-> "highpass", lowCutoff |-> 5, samplingRate |-> samplingRate])
 @@ ("eeg-band" :> [type |-> "bandpass", lowCutoff |-> 5, highCutoff |-> 400,
                    notchFreq |-> 500, samplingRate |-> samplingRate])
 @@ ("notch-50hz" :> [type |-> "notch", notchFreq |-> 500, samplingRate |-> samplingRate])
 @@ ("notch-60hz" :> [type |-> "notch", notchFreq |-> 600, samplingRate |-> samplingRate])
 @@ ("advanced-clean" :> [type |-> "advanced", lowCutoff |-> 5, highCutoff |-> 400,
                          samplingRate |-> samplingRate, enableDCBlock |-> TRUE,
                          enableArtifactRemoval |-> TRUE,
                          enablePowerLineRemoval |-> TRUE])

getPresetFilterConfigs(samplingRate) ==
    ("none" :> [type |-> "none", samplingRate |-> samplingRate])
 @@ ("low-noise" :> [type |-> "lowpass", highCutoff |-> 400, samplingRate |-> samplingRate])
 @@ ("dc-remove" :> [type |-> "highpass", lowCutoff |-> 5, samplingRate |-> samplingRate])
 @@ ("eeg-band" :> [type |-> "bandpass", lowCutoff |-> 5, highCutoff |-> 400,
                    samplingRate |-> samplingRate])
 @@ ("notch-50hz" :> [type |-> "notch", notchFreq |-> 500, samplingRate |-> samplingRate])
 @@ ("notch-60hz" :> [type |-> "notch", notchFreq |-> 600, samplingRate |-> samplingRate])
 @@ ("advanced-clean" :> [type |-> "advanced", lowCutoff |-> 5, highCutoff |-> 400,
                          samplingRate |-> samplingRate, enableDCBlock |-> TRUE,
                          enableArtifactRemoval |-> TRUE,
                          enablePowerLineRemoval |-> TRUE])

\* getPresetFilterConfigs, signalFilters.ts:197-228
getPresetFilterConfigs_signalFilters(samplingRate) ==
    ("none" :> [type |-> "none", samplingRate |-> samplingRate])
 @@ ("low-noise" :> [type |-> "lowpass", highCutoff |-> 400, samplingRate |-> samplingRate])
 @@ ("dc-remove" :> [type |-> "highpass", lowCutoff |-> 5, samplingRate |-> samplingRate])
 @@ ("eeg-band" :> [type |-> "bandpass", lowCutoff |-> 5, highCutoff |-> 400,
                    samplingRate |-> samplingRate])
 @@ ("notch-50hz" :> [type |-> "notch", notchFreq |-> 500, samplingRate |-> samplingRate])
 @@ ("notch-60hz" :> [type |-> "notch", notchFreq |-> 600, samplingRate |-> samplingRate])

--------------------------------------------------------------------------
(* assessSignalQuality, advancedFilters.ts:140-171 *)

\* a / b for numbers a and b
Div(a, b) == (a * Scale) \div b

\* Math.sqrt: the largest r whose square, rounded down, does not exceed v
RECURSIVE SqrtSearch(_, _, _)
SqrtSearch(v, lo, hi) ==
    IF lo >= hi THEN lo
    ELSE LET mid == (lo + hi + 1) \div 2
         IN  IF Mul(mid, mid) <= v THEN SqrtSearch(v, mid, hi)
             ELSE SqrtSearch(v, lo, mid - 1)

\* A power of two whose square exceeds v
RECURSIVE SqrtUpper(_, _)
SqrtUpper(v, hi) == IF Mul(hi, hi) > v THEN hi ELSE SqrtUpper(v, 2 * hi)

Sqrt(v) == SqrtSearch(v, 0, SqrtUpper(v, 1))

\* Variant: the 'good' branch tests the artifact ratio against 0.2
QualityLabel_looseGood(snr, artifactRatio) ==
    IF snr > Num(10) /\ artifactRatio < Milli(50) THEN "excellent"
    ELSE IF snr > Num(5) /\ artifactRatio < Milli(200) THEN "good"
    ELSE IF snr > Num(2) /\ artifactRatio < Milli(200) THEN "fair"
    ELSE "poor"

\* lines 164-168
QualityLabel(snr, artifactRatio) ==
    IF snr > Num(10) /\ artifactRatio < Milli(50) THEN "excellent"
    ELSE IF snr > Num(5) /\ artifactRatio < Milli(100) THEN "good"
    ELSE IF snr > Num(2) /\ artifactRatio < Milli(200) THEN "fair"
    ELSE "poor"

\* Variant: a sample counts as an artifact only when it exceeds +200
QualityMetrics_signedArtifacts(values) ==
    LET n == Len(values)
        mean == Sum(values) \div n
        signal == Sqrt(Sum([i \in 1..n |->
                               Mul(values[i] - mean, values[i] - mean)]) \div n)
        noise == Sqrt(Sum([i \in 1..(n - 1) |->
                              Mul(values[i + 1] - values[i],
                                  values[i + 1] - values[i])]) \div (n - 1))
        snr == Div(signal, noise + Milli(1))
        artifacts == Cardinality({i \in 1..n : values[i] > Num(200)})
        artifactRatio == Div(Num(artifacts), Num(n))
    IN  [snr |-> snr, artifactRatio |-> artifactRatio,
         quality |-> QualityLabel(snr, artifactRatio)]

\* lines 147-170: the metrics of a window of at least 10 samples
QualityMetrics(values) ==
    LET n == Len(values)
        mean == Sum(values) \div n
        signal == Sqrt(Sum([i \in 1..n |->
                               Mul(values[i] - mean, values[i] - mean)]) \div n)
        noise == Sqrt(Sum([i \in 1..(n - 1) |->
                              Mul(values[i + 1] - values[i],
                                  values[i + 1] - values[i])]) \div (n - 1))
        snr == Div(signal, noise + Milli(1))
        artifacts == Cardinality({i \in 1..n : Abs(values[i]) > Num(200)})
        artifactRatio == Div(Num(artifacts), Num(n))
    IN  [snr |-> snr, artifactRatio |-> artifactRatio,
         quality |-> QualityLabel(snr, artifactRatio)]

\* Variant: the length test is off by one
assessSignalQuality_shortBy9(values) ==
    IF Len(values) < 9 THEN [snr |-> 0, artifactRatio |-> Num(1), quality |-> "poor"]
    ELSE QualityMetrics(values)

assessSignalQuality(values) ==
    IF Len(values) < 10 THEN [snr |-> 0, artifactRatio |-> Num(1), quality |-> "poor"]
    ELSE QualityMetrics(values)

--------------------------------------------------------------------------
(* WaveletDenoiser, the professional filters (src/unnamed/part_002:175-211) *)

WaveletDenoiser_new(waveletType, threshold, levels) ==
    [kind |-> "WaveletDenoiser", waveletType |-> waveletType,
     threshold |-> threshold, levels |-> levels]

Sign(v) == IF v > 0 THEN 1 ELSE IF v < 0 THEN -1 ELSE 0

\* lines 194-205: the soft-thresholded value at position k (counted from 1) of
\* values, from the window values.slice(k - 1 - w, k + w)
WaveletSample(f, values, k, w) ==
    LET lo == Max(1, k - w)
        hi == Min(Len(values), k + w)
        window == SubSeq(values, lo, hi)
        mean == Sum(window) \div Len(window)
        variance == Sum([i \in 1..Len(window) |->
                            Mul(window[i] - mean, window[i] - mean)]) \div Len(window)
        std == Sqrt(variance)
        signal == values[k] - mean
        cut == Mul(f.threshold, std)
    IN  IF Abs(signal) > cut
        THEN mean + Sign(signal) * Max(0, Abs(signal) - cut)
        ELSE mean

\* Variant: the loop runs one position further, `i <= data.length - windowSize`
WaveletDenoiser_process_oneMore(f, values) ==
    IF Len(values) < 8 THEN values
    ELSE LET n == Len(values)
             windowSize == Min(8, n \div 4)
         IN  [k \in 1..n |->
                 IF k - 1 >= windowSize /\ k - 1 <= n - windowSize
                 THEN WaveletSample(f, values, k, windowSize)
                 ELSE values[k]]

\* process(data); position k of the model is index k - 1 of the code
WaveletDenoiser_process(f, values) ==
    IF Len(values) < 8 THEN values
    ELSE LET n == Len(values)
             windowSize == Min(8, n \div 4)
         IN  [k \in 1..n |->
                 IF k - 1 >= windowSize /\ k - 1 < n - windowSize
                 THEN WaveletSample(f, values, k, windowSize)
                 ELSE values[k]]

--------------------------------------------------------------------------
(* assessProfessionalSignalQuality, src/unnamed/part_002:367-454 *)

\* a / (b + 1e-10): 1e-10 is below the grid and decides the quotient only when
\* b is 0, where it stands as one step of the grid
DivEps(a, b) == Div(a, IF b = 0 THEN 1 ELSE b)

\* lines 369-376: what an input of fewer than 100 samples gets
ShortInputMetrics ==
    [snr |-> 0, powerLineInterference |-> Num(1), artifactLevel |-> Num(1),
     signalStability |-> 0, frequencyContent |-> <<>>,
     recommendation |-> "unusable"]

\* lines 380-396: the statistics computed before the power-line loop
ProfessionalStatistics(values, sampleRate) ==
    LET n == Len(values)
        mean == Sum(values) \div n
        variance == Sum([i \in 1..n |->
                            Mul(values[i] - mean, values[i] - mean)]) \div n
        noisePower == Sum([i \in 1..(n - 1) |->
                              Mul(values[i + 1] - values[i],
                                  values[i + 1] - values[i])]) \div (n - 1)
    IN  [mean |-> mean, variance |-> variance, std |-> Sqrt(variance),
         snr |-> DivEps(variance, noisePower),
         windowSize |-> sampleRate \div 50,
         powerLineInterference |-> 0]

\* Variant: the length test asks for 50 samples
assessProfessionalSignalQuality_entry_half(values, sampleRate) ==
    IF Len(values) < 50 THEN [returned |-> TRUE, value |-> ShortInputMetrics]
    ELSE [returned |-> FALSE, value |-> ProfessionalStatistics(values, sampleRate)]

\* lines 367-396: the function up to its first loop; either it has returned a
\* value, or value holds its local variables
assessProfessionalSignalQuality_entry(values, sampleRate) ==
    IF Len(values) < 100 THEN [returned |-> TRUE, value |-> ShortInputMetrics]
    ELSE [returned |-> FALSE, value |-> ProfessionalStatistics(values, sampleRate)]

\* lines 400-402: window.every(...) for the window that starts at index i
WindowPeriodic(values, i, windowSize, std) ==
    LET window == SubSeq(values, i + 1, i + windowSize)
        half == windowSize \div 2
    IN  \A idx \in 1..(Len(window) - 1) :
            Abs(window[idx + 1] - window[(idx % half) + 1]) < Mul(std, Milli(500))

\* lines 412-419: the variances of the windows of 50 samples starting at i
RECURSIVE RollingVariances(_, _)
RollingVariances(values, i) ==
    IF i >= Len(values) - 50 THEN <<>>
    ELSE LET window == SubSeq(values, i + 1, i + 50)
             windowMean == Sum(window) \div Len(window)
             windowVar == Sum([k \in 1..Len(window) |->
                                  Mul(window[k] - windowMean, window[k] - windowMean)])
                          \div Len(window)
         IN  <<windowVar>> \o RollingVariances(values, i + 50)

\* lines 433-443
ProfessionalRecommendation(snr, artifactLevel, powerLineInterference) ==
    IF snr > Num(15) /\ artifactLevel < Milli(50) /\ powerLineInterference < Milli(100)
    THEN "excellent"
    ELSE IF snr > Num(8) /\ artifactLevel < Milli(100)
            /\ powerLineInterference < Milli(200)
    THEN "good"
    ELSE IF snr > Num(4) /\ artifactLevel < Milli(200)
            /\ powerLineInterference < Milli(300)
    THEN "fair"
    ELSE IF snr > Num(2) THEN "poor"
    ELSE "unusable"

\* lines 404-452: from the end of the power-line loop to the return; s holds the
\* local variables, powerLineInterference still the count of periodic windows
ProfessionalMetrics(values, s) ==
    LET n == Len(values)
        powerLineInterference ==
            Div(Num(s.powerLineInterference), Num(n \div s.windowSize))
        artifactCount ==
            Cardinality({i \in 1..n : Abs(values[i] - s.mean) > 5 * s.std})
        artifactLevel == Div(Num(artifactCount), Num(n))
        rollingVariances == RollingVariances(values, 0)
        varianceOfVariance ==
            IF Len(rollingVariances) > 1
            THEN Sum(rollingVariances) \div Len(rollingVariances) ELSE 0
        signalStability ==
            Div(Num(1), Num(1) + DivEps(varianceOfVariance, s.variance))
    IN  [snr |-> s.snr, powerLineInterference |-> powerLineInterference,
         artifactLevel |-> artifactLevel, signalStability |-> signalStability,
         frequencyContent |-> [band \in {"delta", "theta", "alpha", "beta"} |->
                                  Milli(250)],
         recommendation |->
             ProfessionalRecommendation(s.snr, artifactLevel, powerLineInterference)]

--------------------------------------------------------------------------
(* Inputs of the model *)

\* Sample values fed to the filters: a small reading and two large ones of
\* opposite sign, beyond the artifact detector's saturation level
Samples == {Num(-500), Num(3), Num(500)}

PrimitiveKinds == {"MovingAverageFilter", "HighPassFilter", "NotchFilter",
                   "DCBlocker", "ButterworthFilter"}

PrimitiveFilters ==
    {MovingAverageFilter_new(w) : w \in {1, 2, 5}}
    \cup {HighPassFilter_new(5, 250), DCBlocker_new(1, 250)}
    \cup {NotchFilter_new(500, 250), NotchFilter_new(600, 250)}
    \cup {ButterworthFilter_new("lowpass", <<400>>, 250),
          ButterworthFilter_new("highpass", <<5>>, 250),
          ButterworthFilter_new("bandpass", <<5, 400>>, 250)}

FlagNames == {"enableDCBlock", "enableArtifactRemoval", "enablePowerLineRemoval"}

\* One configuration per filter type, with every combination of the three flags
ChainConfigs ==
    {flags @@ getPresetFilterConfigs(250)[name] :
        name \in {"none", "low-noise", "dc-remove", "eeg-band", "notch-50hz",
                  "advanced-clean"},
        flags \in [FlagNames -> BOOLEAN]}

\* Configurations handed to applyFilter: the presets at two sampling rates, and
\* one configuration per type that leaves every optional field out
ApplyConfigs ==
    {getPresetFilterConfigs(sr)[name] :
        sr \in {250, 256}, name \in DOMAIN getPresetFilterConfigs(250)}
    \cup {[type |-> t, samplingRate |-> 250] :
            t \in {"lowpass", "highpass", "bandpass", "notch", "advanced"}}

SeqsUpTo(S, n) == UNION {[1..k -> S] : k \in 0..n}

\* Test signals for the quality assessor: n samples, a ramp of slope `step` from
\* `base`, with every second sample raised by `alt`
Signal(n, base, step, alt) ==
    [i \in 1..n |-> Num(base + step * (i - 1) + alt * (i % 2))]

QualityInputs ==
    SeqsUpTo(Samples, MaxData)
    \cup {Signal(n, base, step, alt) :
            n \in 0..MaxSamples, base \in {-401, 0, 162, 164, 167, 180, 201},
            step \in {0, 1, 2}, alt \in {0, 1, 200}}

--------------------------------------------------------------------------
(* Specification of the stateful filter objects: a filter is constructed, fed
   any samples, reset, and fed again beside a newly constructed twin *)

NoConfig == [type |-> "unset"]

BatchIdle ==
    /\ data = <<>>
    /\ config = NoConfig
    /\ impl = "unset"
    /\ result = <<>>
    /\ called = FALSE

ObjectIdle ==
    /\ inst = Undefined
    /\ fresh = Undefined
    /\ phase = "idle"
    /\ calls = 0
    /\ outs = <<>>
    /\ freshOuts = <<>>

\* obj.process(input) for a primitive filter or a chain
ObjProcess(obj, input) ==
    IF obj.kind = "EnhancedFilterChain" THEN EnhancedFilterChain_process(obj, input)
    ELSE process(obj, input) @@ [input |-> input, trace |-> <<>>, flagged |-> FALSE]

ObjReset(obj) ==
    IF obj.kind = "EnhancedFilterChain" THEN EnhancedFilterChain_reset(obj)
    ELSE reset(obj)

CallRecord(p) ==
    [input |-> p.input, trace |-> p.trace, flagged |-> p.flagged, ret |-> p.ret]

Init ==
    /\ inst \in PrimitiveFilters \cup {EnhancedFilterChain_new(c) : c \in ChainConfigs}
    /\ fresh = inst
    /\ phase = "run"
    /\ calls = 0
    /\ outs = <<>>
    /\ freshOuts = <<>>
    /\ chainCalls = <<>>
    /\ BatchIdle

Process(x) ==
    /\ phase = "run"
    /\ calls < MaxCalls
    /\ LET p == ObjProcess(inst, x)
       IN  /\ inst' = p.self
           /\ outs' = Append(outs, p.ret)
           /\ chainCalls' = IF inst.kind = "EnhancedFilterChain"
                            THEN Append(chainCalls, CallRecord(p)) ELSE chainCalls
    /\ calls' = calls + 1
    /\ UNCHANGED <<fresh, phase, freshOuts, data, config, impl, result, called>>

Reset ==
    /\ phase = "run"
    /\ inst' = ObjReset(inst)
    /\ phase' = "replay"
    /\ outs' = <<>>
    /\ chainCalls' = <<>>
    /\ UNCHANGED <<fresh, calls, freshOuts, data, config, impl, result, called>>

Replay(x) ==
    /\ phase = "replay"
    /\ Len(outs) < MaxReplay
    /\ LET p == ObjProcess(inst, x)
           q == ObjProcess(fresh, x)
       IN  /\ inst' = p.self
           /\ fresh' = q.self
           /\ outs' = Append(outs, p.ret)
           /\ freshOuts' = Append(freshOuts, q.ret)
           /\ chainCalls' = IF inst.kind = "EnhancedFilterChain"
                            THEN Append(chainCalls, CallRecord(p)) ELSE chainCalls
    /\ UNCHANGED <<phase, calls, data, config, impl, result, called>>

Next ==
    \/ \E x \in Samples : Process(x)
    \/ Reset
    \/ \E x \in Samples : Replay(x)

Spec == Init /\ [][Next]_vars

--------------------------------------------------------------------------
(* Properties of the stateful filter objects, checked under Spec *)

IsChain == inst.kind = "EnhancedFilterChain"

AllStagesEnabled ==
    /\ IsChain
    /\ \A name \in FlagNames : Flag(inst.config, name)
    /\ inst.config.type \in {"lowpass", "highpass", "notch"}

\* C3: for a chain with DC blocking, power-line removal, artifact removal and a
\* main filter all enabled, the outputs after reset() equal those of a freshly
\* constructed chain of the same config fed the same inputs.
C3_ChainResetEquivalence ==
    (AllStagesEnabled /\ phase = "replay") => outs = freshOuts

\* C4: for each primitive filter, the outputs after any process calls and a
\* reset() equal those of a freshly constructed instance fed the same inputs.
C4_PrimitiveResetEquivalence ==
    (inst.kind \in PrimitiveKinds /\ phase = "replay") => outs = freshOuts

\* A Butterworth filter with history, reset, then fed two samples
C4_Witness ==
    /\ inst.kind = "ButterworthFilter"
    /\ phase = "replay"
    /\ calls = MaxCalls
    /\ Len(outs) >= 2
    /\ outs[2] # 0

\* The stages the claim says a call goes through, in the claimed order
StageOrder == <<"dcBlocker", "powerLineFilter", "mainFilter", "artifactDetector">>

StageEnabled(cfg, stage) ==
    CASE stage = "dcBlocker" -> Flag(cfg, "enableDCBlock")
      [] stage = "powerLineFilter" -> Flag(cfg, "enablePowerLineRemoval")
      [] stage = "mainFilter" -> cfg.type \in {"lowpass", "highpass", "notch"}
      [] stage = "artifactDetector" -> Flag(cfg, "enableArtifactRemoval")

Rank(stage) == CHOOSE i \in 1..Len(StageOrder) : StageOrder[i] = stage

\* The value a call holds after its stages 1 to 3
Stage3Output(call) ==
    LET idx == {i \in 1..Len(call.trace) : call.trace[i].stage # "artifactDetector"}
    IN  IF idx = {} THEN call.input
        ELSE call.trace[CHOOSE i \in idx : \A j \in idx : j <= i].out

\* C5: every process call of a chain runs exactly the enabled stages, in the
\* order DC blocker, power-line notch bank, main filter, artifact detection;
\* the first stage receives the input sample and each later stage the output
\* of the stage run before it.
C5_StageOrder ==
    IsChain =>
        \A k \in 1..Len(chainCalls) :
            LET call == chainCalls[k]
                n == Len(call.trace)
            IN  /\ {call.trace[i].stage : i \in 1..n}
                      = {s \in {StageOrder[i] : i \in 1..4} : StageEnabled(inst.config, s)}
                /\ \A i \in 1..(n - 1) :
                      /\ Rank(call.trace[i].stage) < Rank(call.trace[i + 1].stage)
                      /\ call.trace[i + 1].in = call.trace[i].out
                /\ n > 0 => call.trace[1].in = call.input
                /\ n = 0 => call.ret = call.input
                /\ n > 0 => call.ret = call.trace[n].out

\* A call that went through all four stages, each of which changed the sample
C5_Witness ==
    /\ IsChain
    /\ \E k \in 1..Len(chainCalls) :
          /\ Len(chainCalls[k].trace) = 4
          /\ \A i \in 1..3 : chainCalls[k].trace[i].out # chainCalls[k].trace[i].in

\* C6: with artifact removal enabled a process call returns 0 when the detector
\* flags the stage-3 output and the stage-3 output itself otherwise; with
\* artifact removal disabled it always returns the stage-3 output.
C6_ArtifactSuppression ==
    IsChain =>
        \A k \in 1..Len(chainCalls) :
            LET call == chainCalls[k]
            IN  IF Flag(inst.config, "enableArtifactRemoval")
                THEN call.ret = IF call.flagged THEN 0 ELSE Stage3Output(call)
                ELSE ~call.flagged /\ call.ret = Stage3Output(call)

\* One call flagged and zeroed, and one call passed through, on the same chain
C6_Witness ==
    /\ IsChain
    /\ Flag(inst.config, "enableArtifactRemoval")
    /\ \E k \in 1..Len(chainCalls) :
          /\ chainCalls[k].flagged
          /\ Stage3Output(chainCalls[k]) # 0
          /\ chainCalls[k].ret = 0
    /\ \E k \in 1..Len(chainCalls) :
          /\ ~chainCalls[k].flagged
          /\ chainCalls[k].ret # 0

--------------------------------------------------------------------------
(* Specification of a moving-average filter fed zeros and ones *)

ImpulseInputs == {0, Num(1)}

InitImpulse ==
    /\ inst \in {MovingAverageFilter_new(w) : w \in {1, 2, 3, 5}}
    /\ fresh = inst
    /\ phase = "feed"
    /\ calls = 0
    /\ outs = <<>>
    /\ freshOuts = <<>>
    /\ chainCalls = <<>>
    /\ BatchIdle

\* inst.process(x); data keeps the inputs fed
Feed(x) ==
    /\ phase = "feed"
    /\ calls < MaxFeed
    /\ LET p == MovingAverageFilter_process(inst, x)
       IN  /\ inst' = p.self
           /\ outs' = Append(outs, p.ret)
    /\ data' = Append(data, x)
    /\ calls' = calls + 1
    /\ UNCHANGED <<fresh, phase, freshOuts, chainCalls, config, impl, result, called>>

NextImpulse == \E x \in ImpulseInputs : Feed(x)

SpecImpulse == InitImpulse /\ [][NextImpulse]_vars

\* The inputs fed so far are a prefix of 1, 0, 0, 0, ...
IsImpulse(s) == Len(s) >= 1 /\ s[1] = Num(1) /\ \A i \in 2..Len(s) : s[i] = 0

\* C7 as stated: a window-N moving average fed the unit impulse returns 1/N for
\* each of its first N outputs and 0 afterwards.
C7_ImpulseResponseAsStated ==
    IsImpulse(data) =>
        \A k \in 1..Len(outs) :
            outs[k] = IF k <= inst.windowSize THEN Num(1) \div inst.windowSize ELSE 0

\* C7 amended: a window-N moving average fed the unit impulse returns 1/k as
\* its k-th output for k <= N (the mean of the k samples buffered so far) and 0
\* for every output after the N-th.
C7_ImpulseResponse ==
    IsImpulse(data) =>
        \A k \in 1..Len(outs) :
            outs[k] = IF k <= inst.windowSize THEN Num(1) \div k ELSE 0

\* The window-5 filter after the impulse has left its buffer
C7_Witness ==
    /\ inst.windowSize = 5
    /\ IsImpulse(data)
    /\ Len(outs) >= 6
    /\ outs[5] = Num(1) \div 5
    /\ outs[6] = 0

\* The last min(k, N) of the first k inputs fed, in arrival order
LastInputs(k, N) == SubSeq(data, k - Min(k, N) + 1, k)

\* C20: after k >= 1 process calls on MovingAverageFilter(windowSize = N) the
\* buffer holds exactly the last min(k, N) inputs in arrival order, never more
\* than N, and the k-th call returned the arithmetic mean of the inputs
\* buffered then.
C20_BufferHoldsLastInputs ==
    (phase = "feed" /\ Len(data) >= 1) =>
        LET N == inst.windowSize
        IN  /\ inst.buffer = LastInputs(Len(data), N)
            /\ Len(inst.buffer) <= N
            /\ \A k \in 1..Len(data) :
                  outs[k] = Sum(LastInputs(k, N)) \div Min(k, N)

\* A window of 3 after 7 inputs: the buffer is 1, 0, 1 and the early 1s are gone
C20_Witness ==
    /\ phase = "feed"
    /\ inst.windowSize = 3
    /\ data = <<Num(1), Num(1), 0, 0, Num(1), 0, Num(1)>>
    /\ inst.buffer = <<Num(1), 0, Num(1)>>
    /\ outs[7] = Num(2) \div 3
    /\ outs[2] = Num(1)

--------------------------------------------------------------------------
(* Specification of one applyFilter call on any data and configuration *)

InitApply ==
    /\ data \in SeqsUpTo(Samples, MaxData)
    /\ config \in ApplyConfigs
    /\ impl \in {"NetworkProvider", "signalFilters"}
    /\ result = <<>>
    /\ called = FALSE
    /\ chainCalls = <<>>
    /\ ObjectIdle

CallApplyFilter ==
    /\ ~called
    /\ result' = IF impl = "NetworkProvider" THEN applyFilter(data, config)
                 ELSE applyFilter_signalFilters(data, config)
    /\ chainCalls' = IF impl = "NetworkProvider"
                     THEN applyFilter_chainCalls(data, config) ELSE <<>>
    /\ called' = TRUE
    /\ UNCHANGED <<inst, fresh, phase, calls, outs, freshOuts, data, config, impl>>

NextApply == CallApplyFilter

SpecApply == InitApply /\ [][NextApply]_vars

\* C1: applyFilter with type 'none' returns an array element-wise equal to its
\* input, for every input (the empty one included) and every sampling rate.
C1_NoneIsIdentity ==
    (called /\ config.type = "none") => result = data

C1_Witness ==
    /\ called
    /\ config.type = "none"
    /\ Len(data) = MaxData
    /\ result = data

\* C2: for every supported type and every non-empty input, applyFilter returns
\* one output per input sample: the result has the input's length, and on the
\* chain path the i-th output is what the chain returned for the i-th input.
C2_LengthPreserved ==
    (called /\ data # <<>>) =>
        /\ Len(result) = Len(data)
        /\ chainCalls # <<>> =>
              /\ Len(chainCalls) = Len(data)
              /\ \A i \in 1..Len(data) :
                    chainCalls[i].input = data[i] /\ result[i] = chainCalls[i].ret

C2_Witness ==
    /\ called
    /\ config.type = "bandpass"
    /\ Len(data) = MaxData
    /\ Len(result) = MaxData
    /\ result # data

\* C8: applying the 'advanced-clean' preset through applyFilter runs every
\* sample through DC blocking, power-line removal, artifact removal and the
\* band-pass main filter.
C8_AdvancedCleanRunsBandpass ==
    (called /\ impl = "NetworkProvider" /\ data # <<>>
        /\ config = getPresetFilterConfigs(config.samplingRate)["advanced-clean"]) =>
        /\ Len(chainCalls) = Len(data)
        /\ \A k \in 1..Len(chainCalls) :
              {chainCalls[k].trace[i].stage : i \in 1..Len(chainCalls[k].trace)}
                  = {"dcBlocker", "powerLineFilter", "mainFilter", "artifactDetector"}

\* {...config, type}: the configuration with another filter type and the same
\* cutoffs and sampling rate
WithType(cfg, type) == [cfg EXCEPT !.type = type]

\* C14: for type 'bandpass' applyFilter returns, for every input x, what
\* applyFilter(applyFilter(x, highpass config), lowpass config) returns with the
\* same cutoffs and sampling rate: each sample goes through the high-pass and
\* then the moving average, each filter keeping its own state.
C14_BandpassIsComposition ==
    (called /\ config.type = "bandpass") =>
        result = applyFilter(applyFilter(data, WithType(config, "highpass")),
                             WithType(config, "lowpass"))

\* A three-sample band-pass call whose high-pass and moving-average stages both
\* change the samples
C14_Witness ==
    /\ called
    /\ config.type = "bandpass"
    /\ Len(data) = MaxData
    /\ applyFilter(data, WithType(config, "highpass")) # data
    /\ result # applyFilter(data, WithType(config, "highpass"))
    /\ result # applyFilter(data, WithType(config, "lowpass"))

--------------------------------------------------------------------------
(* Specification of one assessSignalQuality call on any window of samples *)

InitQuality ==
    /\ data \in QualityInputs
    /\ config = NoConfig
    /\ impl = "unset"
    /\ result = <<>>
    /\ called = FALSE
    /\ chainCalls = <<>>
    /\ ObjectIdle

CallAssessSignalQuality ==
    /\ ~called
    /\ result' = assessSignalQuality(data)
    /\ called' = TRUE
    /\ UNCHANGED <<inst, fresh, phase, calls, outs, freshOuts, chainCalls,
                   data, config, impl>>

NextQuality == CallAssessSignalQuality

SpecQuality == InitQuality /\ [][NextQuality]_vars

\* C9: for every input of fewer than 10 samples assessSignalQuality returns
\* exactly {snr: 0, artifactRatio: 1, quality: 'poor'}.
C9_ShortInputSentinel ==
    (called /\ Len(data) < 10) =>
        result = [snr |-> 0, artifactRatio |-> Num(1), quality |-> "poor"]

\* Nine samples, none of them an artifact
C9_Witness ==
    /\ called
    /\ Len(data) = 9
    /\ \A i \in 1..9 : Abs(data[i]) <= Num(200)
    /\ result.artifactRatio = Num(1)

\* C10: for every input of at least 10 samples the returned quality follows
\* from the returned snr and artifactRatio: 'excellent' iff snr > 10 and
\* artifactRatio < 0.05; otherwise 'good' iff snr > 5 and artifactRatio < 0.1;
\* otherwise 'fair' iff snr > 2 and artifactRatio < 0.2; otherwise 'poor'.
C10_QualityThresholds ==
    (called /\ Len(data) >= 10) =>
        LET excellent == result.snr > Num(10) /\ result.artifactRatio < Milli(50)
            good == result.snr > Num(5) /\ result.artifactRatio < Milli(100)
            fair == result.snr > Num(2) /\ result.artifactRatio < Milli(200)
        IN  /\ result.quality = "excellent" <=> excellent
            /\ result.quality = "good" <=> (~excellent /\ good)
            /\ result.quality = "fair" <=> (~excellent /\ ~good /\ fair)
            /\ result.quality = "poor" <=> (~excellent /\ ~good /\ ~fair)

\* A signal whose snr alone would make it excellent, held at 'good' by its
\* artifact ratio
C10_Witness ==
    /\ called
    /\ Len(data) >= 10
    /\ result.snr > Num(10)
    /\ result.artifactRatio > 0
    /\ result.quality = "good"

\* C11: for every input of at least 10 samples in which every sample has a
\* magnitude above 200, assessSignalQuality returns artifactRatio 1 and quality
\* 'poor', whatever the snr.
C11_AllArtifactsPoor ==
    (called /\ Len(data) >= 10 /\ \A i \in 1..Len(data) : Abs(data[i]) > Num(200)) =>
        /\ result.artifactRatio = Num(1)
        /\ result.quality = "poor"

\* Forty samples, all above 200, with an snr that alone would rate 'excellent'
C11_Witness ==
    /\ called
    /\ Len(data) = MaxSamples
    /\ \A i \in 1..Len(data) : data[i] > Num(200)
    /\ result.snr > Num(10)
    /\ result.artifactRatio = Num(1)
    /\ result.quality = "poor"

--------------------------------------------------------------------------
(* Specification of one getPresetFilterConfigs call at any sampling rate; data
   is the sampling rate handed in *)

InitPresets ==
    /\ data \in 0..MaxRate
    /\ config = NoConfig
    /\ impl \in {"NetworkProvider", "signalFilters"}
    /\ result = <<>>
    /\ called = FALSE
    /\ chainCalls = <<>>
    /\ ObjectIdle

CallGetPresetFilterConfigs ==
    /\ ~called
    /\ result' = IF impl = "NetworkProvider" THEN getPresetFilterConfigs(data)
                 ELSE getPresetFilterConfigs_signalFilters(data)
    /\ called' = TRUE
    /\ UNCHANGED <<inst, fresh, phase, calls, outs, freshOuts, chainCalls,
                   data, config, impl>>

NextPresets == CallGetPresetFilterConfigs

SpecPresets == InitPresets /\ [][NextPresets]_vars

\* C12: for every sampling rate R, the 'eeg-band' entry of
\* getPresetFilterConfigs(R) has exactly the fields type 'bandpass',
\* lowCutoff 0.5, highCutoff 40 and samplingRate R.
C12_EegBandPreset ==
    called =>
        /\ DOMAIN result["eeg-band"] = {"type", "lowCutoff", "highCutoff", "samplingRate"}
        /\ result["eeg-band"].type = "bandpass"
        /\ result["eeg-band"].lowCutoff = 5
        /\ result["eeg-band"].highCutoff = 400
        /\ result["eeg-band"].samplingRate = data

\* The preset table of NetworkProvider.tsx built for 256 Hz
C12_Witness ==
    /\ called
    /\ impl = "NetworkProvider"
    /\ data = 256
    /\ "advanced-clean" \in DOMAIN result
    /\ result["eeg-band"].samplingRate = 256

--------------------------------------------------------------------------
(* Specification of a series of applyFilter calls: outs logs each call with its
   arguments and result, inst holds the filter objects the last call left *)

CallData == {<<Num(500), Num(3)>>, <<Num(3), Num(-500), Num(500)>>}

CallConfigs ==
    {getPresetFilterConfigs(250)[name] :
        name \in {"low-noise", "dc-remove", "eeg-band", "notch-50hz", "advanced-clean"}}

InitCalls ==
    /\ inst = <<>>
    /\ fresh = Undefined
    /\ phase = "calls"
    /\ calls = 0
    /\ outs = <<>>
    /\ freshOuts = <<>>
    /\ chainCalls = <<>>
    /\ data = <<>>
    /\ config = NoConfig
    /\ impl \in {"NetworkProvider", "signalFilters"}
    /\ result = <<>>
    /\ called = FALSE

\* applyFilter(d, c)
ApplyFilterCall(d, c) ==
    /\ phase = "calls"
    /\ calls < MaxApplyCalls
    /\ data' = d
    /\ config' = c
    /\ result' = IF impl = "NetworkProvider" THEN applyFilter(d, c)
                 ELSE applyFilter_signalFilters(d, c)
    /\ inst' = applyFilter_instances(d, c, impl)
    /\ outs' = Append(outs, [data |-> d, config |-> c, result |-> result'])
    /\ calls' = calls + 1
    /\ called' = TRUE
    /\ UNCHANGED <<fresh, phase, freshOuts, chainCalls, impl>>

NextCalls == \E d \in CallData, c \in CallConfigs : ApplyFilterCall(d, c)

SpecCalls == InitCalls /\ [][NextCalls]_vars

\* C13: two applyFilter calls with equal data and equal config return equal
\* arrays, whatever other applyFilter calls were made before or in between.
C13_NoStateBetweenCalls ==
    \A i, j \in 1..Len(outs) :
        (outs[i].data = outs[j].data /\ outs[i].config = outs[j].config)
            => outs[i].result = outs[j].result

\* The same high-pass call made first and third, around a call that filters
\* other data through a high-pass of its own
C13_Witness ==
    /\ Len(outs) = 3
    /\ outs[1].config.type = "highpass"
    /\ outs[2].config.type = "bandpass"
    /\ outs[2].data # outs[1].data
    /\ outs[3].data = outs[1].data
    /\ outs[3].config = outs[1].config
    /\ outs[3].result = outs[1].result
    /\ outs[1].result # outs[1].data
    /\ inst # <<>>

--------------------------------------------------------------------------
(* Specification of the viewer's channels: inst is the heap, fresh maps each
   channel to its chain's member addresses, data and outs log per channel the
   samples processed and the values returned *)

Channels == <<"ch1", "ch2">>

ChannelSet == {Channels[i] : i \in 1..Len(Channels)}

\* Readings of a connected electrode: one quiet, two beyond the artifact level
ChannelSamples == {Num(11), Num(150), Num(3000)}

\* The viewer's filterConfig, and configurations with a main filter
ChannelConfigs ==
    {[n \in FlagNames |-> TRUE] @@ getPresetFilterConfigs(250)[name] :
        name \in {"low-noise", "dc-remove", "notch-50hz", "advanced-clean"}}

InitChannels ==
    /\ config \in ChannelConfigs
    /\ LET r == InitializeFilterChains([heap |-> <<>>, chains |-> <<>>], Channels, config)
       IN  inst = r.heap /\ fresh = r.chains
    /\ phase = "channels"
    /\ calls = 0
    /\ data = [ch \in ChannelSet |-> <<>>]
    /\ outs = [ch \in ChannelSet |-> <<>>]
    /\ freshOuts = <<>>
    /\ chainCalls = <<>>
    /\ impl = "unset"
    /\ result = <<>>
    /\ called = FALSE

\* filterChains[ch].process(x), line 426
ProcessChannel(ch, x) ==
    /\ phase = "channels"
    /\ calls < MaxChannelCalls
    /\ LET p == EnhancedFilterChain_process(ChainAt(inst, fresh[ch]), x)
       IN  /\ inst' = StoreChain(inst, fresh[ch], p.self)
           /\ outs' = [outs EXCEPT ![ch] = Append(@, p.ret)]
    /\ data' = [data EXCEPT ![ch] = Append(@, x)]
    /\ calls' = calls + 1
    /\ UNCHANGED <<fresh, phase, freshOuts, chainCalls, config, impl, result, called>>

NextChannels == \E ch \in ChannelSet, x \in ChannelSamples : ProcessChannel(ch, x)

SpecChannels == InitChannels /\ [][NextChannels]_vars

\* The addresses of the filter objects a channel's chain holds
Owned(ch) == {fresh[ch][Members[i]] : i \in 1..Len(Members)} \ {0}

\* What a chain constructed from cfg and fed xs alone returns
Alone(cfg, xs) ==
    LET cs == MapChain(EnhancedFilterChain_new(cfg), xs)
    IN  [i \in 1..Len(cs) |-> cs[i].ret]

\* C15: chains built from the same FilterConfig for different channels hold no
\* filter object in common, and whatever is processed on the other channels,
\* each channel's chain returns what a chain fed that channel's samples alone
\* returns.
C15_ChannelsIndependent ==
    phase = "channels" =>
        /\ \A a, b \in ChannelSet : a # b => Owned(a) \cap Owned(b) = {}
        /\ \A ch \in ChannelSet : outs[ch] = Alone(config, data[ch])

\* Channel 1 processed artifacts before and after channel 2 processed a quiet
\* sample, on chains with all four stages
C15_Witness ==
    /\ phase = "channels"
    /\ config.type = "highpass"
    /\ Len(data["ch1"]) = 2
    /\ data["ch1"][1] = Num(3000)
    /\ data["ch2"] = <<Num(11)>>
    /\ outs["ch2"] # <<0>>
    /\ outs["ch1"][1] = 0
    /\ Cardinality(Owned("ch2")) = 4

--------------------------------------------------------------------------
(* Specification of one WaveletDenoiser.process call on any array *)

\* Every array of up to MaxWavelet samples of two levels, and the longer test
\* signals of the quality assessor
WaveletInputs ==
    SeqsUpTo({0, Num(100)}, MaxWavelet)
    \cup {Signal(n, base, step, alt) :
            n \in 0..MaxSamples, base \in {-401, 0, 180}, step \in {0, 1, 2},
            alt \in {0, 1, 200}}

InitWavelet ==
    /\ inst \in {WaveletDenoiser_new("db4", t, 4) : t \in {Milli(100), Num(1)}}
    /\ fresh = Undefined
    /\ phase = "idle"
    /\ calls = 0
    /\ outs = <<>>
    /\ freshOuts = <<>>
    /\ chainCalls = <<>>
    /\ data \in WaveletInputs
    /\ config = NoConfig
    /\ impl = "unset"
    /\ result = <<>>
    /\ called = FALSE

\* inst.process(data)
CallWaveletProcess ==
    /\ ~called
    /\ inst.kind = "WaveletDenoiser"
    /\ result' = WaveletDenoiser_process(inst, data)
    /\ called' = TRUE
    /\ UNCHANGED <<inst, fresh, phase, calls, outs, freshOuts, chainCalls,
                   data, config, impl>>

NextWavelet == CallWaveletProcess

SpecWavelet == InitWavelet /\ [][NextWavelet]_vars

\* C16: WaveletDenoiser.process returns an array of the input's length n in
\* which every sample within w = min(8, floor(n / 4)) positions of either end
\* (index < w or index >= n - w) equals the input sample; an input of fewer than
\* 8 samples is returned unchanged.
C16_EdgesUntouched ==
    (called /\ inst.kind = "WaveletDenoiser") =>
        LET n == Len(data)
            w == Min(8, n \div 4)
        IN  /\ Len(result) = n
            /\ \A k \in 1..n : (k - 1 < w \/ k - 1 >= n - w) => result[k] = data[k]
            /\ n < 8 => result = data

\* An array long enough for the full window of 8, whose interior is changed up
\* to the last position the loop visits
C16_Witness ==
    /\ called
    /\ inst.kind = "WaveletDenoiser"
    /\ Len(data) = MaxSamples
    /\ Min(8, Len(data) \div 4) = 8
    /\ result[9] # data[9]
    /\ result[Len(data) - 8] # data[Len(data) - 8]
    /\ result[Len(data) - 7] = data[Len(data) - 7]

--------------------------------------------------------------------------
(* Specification of a filter fed a test signal sample by sample: config
   describes the signal, data keeps the samples fed and outs the returns *)

\* sin(2 pi k / 5) for k = 0..4, in thousandths: a 50 Hz tone sampled at 250 Hz
TonePeriod == <<0, 951, 588, -588, -951>>

TestSignals ==
    {[wave |-> "constant", level |-> c] : c \in {Num(5), Num(-5), Num(1)}}
    \cup {[wave |-> "tone", amplitude |-> a, phase |-> p] :
            a \in {Num(1), Num(100)}, p \in 0..4}

\* Sample number k (from 0) of a test signal
SignalSample(sig, k) ==
    IF sig.wave = "constant" THEN sig.level
    ELSE Mul(sig.amplitude, Milli(TonePeriod[((k + sig.phase) % 5) + 1]))

InitSignal ==
    /\ config \in TestSignals
    /\ inst = IF config.wave = "constant" THEN HighPassFilter_new(5, 250)
              ELSE NotchFilter_new(500, 250)
    /\ fresh = Undefined
    /\ phase = "signal"
    /\ calls = 0
    /\ outs = <<>>
    /\ freshOuts = <<>>
    /\ chainCalls = <<>>
    /\ data = <<>>
    /\ impl = "unset"
    /\ result = <<>>
    /\ called = FALSE

\* inst.process(x) for the next sample x of the signal
FeedSignal(limit) ==
    /\ phase = "signal"
    /\ calls < limit
    /\ LET x == SignalSample(config, calls)
           p == process(inst, x)
       IN  /\ inst' = p.self
           /\ outs' = Append(outs, p.ret)
           /\ data' = Append(data, x)
    /\ calls' = calls + 1
    /\ UNCHANGED <<fresh, phase, freshOuts, chainCalls, config, impl, result, called>>

FeedConstant == config.wave = "constant" /\ FeedSignal(MaxConstant)

FeedTone == config.wave = "tone" /\ FeedSignal(MaxTone)

NextSignal == FeedConstant \/ FeedTone

SpecSignal == InitSignal /\ [][NextSignal]_vars

ConstantRun ==
    phase = "signal" /\ config.wave = "constant" /\ inst.kind = "HighPassFilter"

ToneRun ==
    phase = "signal" /\ config.wave = "tone" /\ inst.kind = "NotchFilter"

\* C18: a sinusoid at 50 Hz sampled at 250 Hz, fed through NotchFilter(50, 250),
\* yields after the transient (SettleSamples samples) outputs whose magnitude
\* stays below 10% of the input amplitude.
C18_NotchRejectsTone ==
    ToneRun =>
        \A k \in (SettleSamples + 1)..Len(outs) :
            10 * Abs(outs[k]) < config.amplitude

\* A full run in which the transient exceeded 10% of the amplitude and a
\* near-peak input sample met the settled filter
C18_Witness ==
    /\ ToneRun
    /\ Len(outs) = MaxTone
    /\ \E k \in 1..SettleSamples : 10 * Abs(outs[k]) >= config.amplitude
    /\ \E k \in (SettleSamples + 1)..MaxTone :
          /\ Abs(data[k]) >= Mul(config.amplitude, Milli(950))
          /\ 10 * Abs(outs[k]) < config.amplitude

--------------------------------------------------------------------------
(* Specification of one assessProfessionalSignalQuality call, its power-line
   loop taken one iteration at a time: config holds the sampleRate argument,
   inst the local variables, calls the loop index i, phase the position *)

ProfessionalInputs ==
    {Signal(n, base, step, alt) :
        n \in 0..MaxProfessional, base \in {0, 50}, step \in {0, 1}, alt \in {0, 20}}

SampleRates == {25, 50, 250}

InitProfessional ==
    /\ data \in ProfessionalInputs
    /\ config \in {[sampleRate |-> r] : r \in SampleRates}
    /\ phase = "start"
    /\ inst = Undefined
    /\ fresh = Undefined
    /\ calls = 0
    /\ outs = <<>>
    /\ freshOuts = <<>>
    /\ chainCalls = <<>>
    /\ impl = "unset"
    /\ result = <<>>
    /\ called = FALSE

\* lines 367-396: the length test and the statistics
AssessEnter ==
    /\ phase = "start"
    /\ LET e == assessProfessionalSignalQuality_entry(data, config.sampleRate)
       IN  IF e.returned
           THEN /\ result' = e.value
                /\ called' = TRUE
                /\ phase' = "done"
                /\ UNCHANGED inst
           ELSE /\ inst' = e.value
                /\ phase' = "powerLine"
                /\ UNCHANGED <<result, called>>
    /\ UNCHANGED <<fresh, calls, outs, freshOuts, chainCalls, data, config, impl>>

\* lines 397-404: one iteration of the power-line loop; with a window size of 0
\* window is empty and window.reduce without an initial value throws
PowerLineIteration ==
    /\ phase = "powerLine"
    /\ calls < Len(data) - inst.windowSize
    /\ IF inst.windowSize = 0
       THEN /\ phase' = "thrown"
            /\ UNCHANGED <<inst, calls>>
       ELSE /\ inst' = [inst EXCEPT !.powerLineInterference =
                           IF WindowPeriodic(data, calls, inst.windowSize, inst.std)
                           THEN @ + 1 ELSE @]
            /\ calls' = calls + inst.windowSize
            /\ UNCHANGED phase
    /\ UNCHANGED <<fresh, outs, freshOuts, chainCalls, data, config, impl,
                   result, called>>

\* lines 405-453: the loop has ended; the remaining metrics and the return
AssessReturn ==
    /\ phase = "powerLine"
    /\ calls >= Len(data) - inst.windowSize
    /\ result' = ProfessionalMetrics(data, inst)
    /\ called' = TRUE
    /\ phase' = "done"
    /\ UNCHANGED <<inst, fresh, calls, outs, freshOuts, chainCalls, data, config, impl>>

NextProfessional == AssessEnter \/ PowerLineIteration \/ AssessReturn

SpecProfessional == InitProfessional /\ [][NextProfessional]_vars

\* C19 as stated: for every input of fewer than 100 samples and any sampleRate
\* the function returns an all-zero result with recommendation 'unusable':
\* snr 0, signalStability 0, zero interference and artifact metrics.
C19_AllZeroSentinelAsStated ==
    (called /\ Len(data) < 100) =>
        /\ result.snr = 0
        /\ result.signalStability = 0
        /\ result.powerLineInterference = 0
        /\ result.artifactLevel = 0
        /\ result.recommendation = "unusable"

\* C19 amended: for every input of fewer than 100 samples and any sampleRate the
\* function returns at once, without throwing, the fixed record {snr: 0,
\* powerLineInterference: 1, artifactLevel: 1, signalStability: 0,
\* frequencyContent: {}, recommendation: 'unusable'}.
C19_ShortInputMetrics ==
    (Len(data) < 100 /\ phase # "start") =>
        /\ phase = "done"
        /\ called
        /\ result = [snr |-> 0, powerLineInterference |-> Num(1),
                     artifactLevel |-> Num(1), signalStability |-> 0,
                     frequencyContent |-> <<>>, recommendation |-> "unusable"]

\* 99 samples at a sample rate below 50
C19_Witness ==
    /\ called
    /\ phase = "done"
    /\ Len(data) = 99
    /\ config.sampleRate < 50
    /\ result.powerLineInterference = Num(1)
    /\ result.recommendation = "unusable"

--------------------------------------------------------------------------
(* Specification of an ArtifactDetector on its own: data keeps the values
   passed to detectArtifact and outs what each call returned *)

DetectorSamples == {0, Num(150), Num(-300), Num(500)}

InitDetector ==
    /\ inst \in {ArtifactDetector_new(Num(200), w) : w \in {0, 1, 2, 3, 10}}
    /\ fresh = Undefined
    /\ phase = "detect"
    /\ calls = 0
    /\ outs = <<>>
    /\ freshOuts = <<>>
    /\ chainCalls = <<>>
    /\ BatchIdle

\* inst.detectArtifact(x)
Detect(x) ==
    /\ phase = "detect"
    /\ calls < MaxDetect
    /\ LET d == ArtifactDetector_detectArtifact(inst, x)
       IN  /\ inst' = d.self
           /\ outs' = Append(outs, d.ret)
    /\ data' = Append(data, x)
    /\ calls' = calls + 1
    /\ UNCHANGED <<fresh, phase, freshOuts, chainCalls, config, impl, result, called>>

NextDetector == \E x \in DetectorSamples : Detect(x)

SpecDetector == InitDetector /\ [][NextDetector]_vars

\* C21: detectArtifact(value) returns true exactly when the difference between
\* |value| and the magnitude passed to the preceding call exceeds threshold (a
\* preceding call existing and windowSize >= 2), or |value| > 2 * threshold;
\* the magnitude buffer never holds more than windowSize entries.
C21_DetectArtifactRule ==
    phase = "detect" =>
        /\ Len(inst.buffer) <= inst.windowSize
        /\ \A k \in 1..Len(outs) :
              outs[k] <=>
                  \/ /\ k >= 2
                     /\ inst.windowSize >= 2
                     /\ Abs(Abs(data[k]) - Abs(data[k - 1])) > inst.threshold
                  \/ Abs(data[k]) > 2 * inst.threshold

\* A window of 3 that has shifted: a jump flagged, a step of exactly the
\* threshold (-300 to 500) flagged by saturation only, a quiet step not flagged
C21_Witness ==
    /\ phase = "detect"
    /\ inst.windowSize = 3
    /\ data = <<0, Num(-300), Num(150), Num(500)>>
    /\ outs = <<FALSE, TRUE, FALSE, TRUE>>
    /\ Len(inst.buffer) = 3

--------------------------------------------------------------------------
(* Specification of a PowerLineNotchFilter run beside separate NotchFilter
   instances: inst is the bank, fresh the sequence of single notch filters *)

CascadeFrequencies == {<<500>>, <<500, 600>>, <<600, 500>>, <<500, 500>>}

\* The sequence of filters fed in order, each consuming the previous output
RECURSIVE NotchSeries(_, _, _)
NotchSeries(fs, i, value) ==
    IF i > Len(fs) THEN [self |-> fs, ret |-> value]
    ELSE LET p == NotchFilter_process(fs[i], value)
         IN  NotchSeries([fs EXCEPT ![i] = p.self], i + 1, p.ret)

InitCascade ==
    /\ \E fr \in CascadeFrequencies :
          /\ inst = PowerLineNotchFilter_new(fr, 250)
          /\ fresh = [i \in 1..Len(fr) |-> NotchFilter_new(fr[i], 250)]
    /\ phase = "cascade"
    /\ calls = 0
    /\ outs = <<>>
    /\ freshOuts = <<>>
    /\ chainCalls = <<>>
    /\ BatchIdle

\* bank.process(x) and the same x through the separate filters
FeedCascade(x) ==
    /\ phase = "cascade"
    /\ calls < MaxCascade
    /\ LET b == PowerLineNotchFilter_process(inst, x)
           s == NotchSeries(fresh, 1, x)
       IN  /\ inst' = b.self
           /\ fresh' = s.self
           /\ outs' = Append(outs, b.ret)
           /\ freshOuts' = Append(freshOuts, s.ret)
    /\ data' = Append(data, x)
    /\ calls' = calls + 1
    /\ UNCHANGED <<phase, chainCalls, config, impl, result, called>>

NextCascade == \E x \in Samples : FeedCascade(x)

SpecCascade == InitCascade /\ [][NextCascade]_vars

\* C22: PowerLineNotchFilter([f1..fk], fs) is a series cascade with independent
\* per-stage state: for every input sequence its outputs equal those of
\* separate NotchFilter(f1, fs), ..., NotchFilter(fk, fs) instances fed in that
\* order, each stage consuming the previous stage's output.
C22_BankIsSeriesOfNotches ==
    phase = "cascade" =>
        /\ outs = freshOuts
        /\ \A i \in 1..Len(fresh) :
              /\ inst.filters[i].x1 = fresh[i].x1 /\ inst.filters[i].x2 = fresh[i].x2
              /\ inst.filters[i].y1 = fresh[i].y1 /\ inst.filters[i].y2 = fresh[i].y2

\* Two different stages, three samples in, and the second stage's delay line
\* holding something other than the first stage's
C22_Witness ==
    /\ phase = "cascade"
    /\ Len(inst.filters) = 2
    /\ inst.coefficients[1] # inst.coefficients[2]
    /\ Len(outs) >= 3
    /\ outs = freshOuts
    /\ outs[3] # 0
    /\ inst.filters[1] # inst.filters[2]

--------------------------------------------------------------------------
(* SpikeDetector: adaptive threshold over the trailing samples with a
   refractory period; timestamps are fixed-point numbers like the samples *)

SpikeDetector_new(threshold, refractoryPeriodMs, sampleRate) ==
    [kind |-> "SpikeDetector", threshold |-> threshold,
     refractoryPeriod |-> Mul(Div(Num(refractoryPeriodMs), Num(1000)), Num(sampleRate)),
     buffer |-> <<>>, lastSpikeTime |-> 0, sampleRate |-> sampleRate]

\* this.buffer.slice(-16)
LastOf(s, n) == SubSeq(s, Max(1, Len(s) - n + 1), Len(s))

SpikeMean(recentBuffer) == Div(Sum(recentBuffer), Num(Len(recentBuffer)))

SpikeStd(recentBuffer) ==
    LET mean == SpikeMean(recentBuffer)
        sq == [i \in 1..Len(recentBuffer) |->
                  Mul(recentBuffer[i] - mean, recentBuffer[i] - mean)]
    IN  Sqrt(Div(Sum(sq), Num(Len(recentBuffer))))

\* Variant: the refractory test is left out
SpikeDetector_process_noRefractory(f, input, timestamp) ==
    LET pushed == Append(f.buffer, input)
        buffer == IF Len(pushed) > 32 THEN Tail(pushed) ELSE pushed
        recentBuffer == LastOf(buffer, 16)
        adaptiveThreshold == Mul(f.threshold, SpikeStd(recentBuffer))
        currentValue == Abs(input - SpikeMean(recentBuffer))
        g == [f EXCEPT !.buffer = buffer]
    IN  IF Len(buffer) < 8 THEN [self |-> g, ret |-> [spike |-> FALSE, amplitude |-> 0]]
        ELSE IF currentValue > adaptiveThreshold
        THEN [self |-> [g EXCEPT !.lastSpikeTime = timestamp],
              ret |-> [spike |-> TRUE, amplitude |-> currentValue]]
        ELSE [self |-> g, ret |-> [spike |-> FALSE, amplitude |-> currentValue]]

SpikeDetector_process(f, input, timestamp) ==
    LET pushed == Append(f.buffer, input)
        buffer == IF Len(pushed) > 32 THEN Tail(pushed) ELSE pushed
        recentBuffer == LastOf(buffer, 16)
        adaptiveThreshold == Mul(f.threshold, SpikeStd(recentBuffer))
        currentValue == Abs(input - SpikeMean(recentBuffer))
        g == [f EXCEPT !.buffer = buffer]
    IN  IF Len(buffer) < 8 THEN [self |-> g, ret |-> [spike |-> FALSE, amplitude |-> 0]]
        ELSE IF timestamp - f.lastSpikeTime < f.refractoryPeriod
        THEN [self |-> g, ret |-> [spike |-> FALSE, amplitude |-> currentValue]]
        ELSE IF currentValue > adaptiveThreshold
        THEN [self |-> [g EXCEPT !.lastSpikeTime = timestamp],
              ret |-> [spike |-> TRUE, amplitude |-> currentValue]]
        ELSE [self |-> g, ret |-> [spike |-> FALSE, amplitude |-> currentValue]]

(* Specification: one detector called with samples whose timestamps advance
   by a step fixed per run (config.step, in samples); result keeps the
   timestamps passed, outs the returned records *)

SpikeSamples == {0, Num(10)}
SpikeSteps == {0, 1, 3}

InitSpike ==
    /\ inst \in {SpikeDetector_new(t, ms, 250) : t \in {Num(1), Num(3)}, ms \in {2, 8, 20}}
    /\ fresh = Undefined
    /\ phase = "spike"
    /\ calls = 0
    /\ outs = <<>>
    /\ freshOuts = <<>>
    /\ chainCalls = <<>>
    /\ data = <<>>
    /\ config \in {[step |-> Num(s)] : s \in SpikeSteps}
    /\ impl = "none"
    /\ result = <<>>
    /\ called = FALSE

\* inst.process(x, timestamp) with the next timestamp
SpikeProcess(x) ==
    /\ phase = "spike"
    /\ calls < MaxSpike
    /\ LET timestamp == (calls + 1) * config.step
           p == SpikeDetector_process(inst, x, timestamp)
       IN  /\ inst' = p.self
           /\ outs' = Append(outs, p.ret)
           /\ result' = Append(result, timestamp)
    /\ data' = Append(data, x)
    /\ calls' = calls + 1
    /\ UNCHANGED <<fresh, phase, freshOuts, chainCalls, config, impl, called>>

NextSpike == \E x \in SpikeSamples : SpikeProcess(x)

SpecSpike == InitSpike /\ [][NextSpike]_vars

\* The deviation of call k's input from the mean of the trailing samples
\* exceeds threshold * std
SpikeSized(k) ==
    LET recentBuffer == LastOf(SubSeq(data, 1, k), 16)
    IN  Abs(data[k] - SpikeMean(recentBuffer)) > Mul(inst.threshold, SpikeStd(recentBuffer))

\* C23: process reports spike = true only when |input - mean| exceeds
\* threshold * std over the trailing buffered samples and at least
\* refractoryPeriod has elapsed since the last reported spike; so with
\* non-decreasing timestamps no two calls reporting a spike have timestamps
\* closer than refractoryPeriod.
C23_SpikesRespectRefractory ==
    phase = "spike" =>
        /\ \A k \in 1..Len(outs) : outs[k].spike => SpikeSized(k)
        /\ \A j, k \in 1..Len(outs) :
              (j < k /\ outs[j].spike /\ outs[k].spike)
                  => result[k] - result[j] >= inst.refractoryPeriod

\* Refractory period of 2 samples, one sample per call: a spike at call 8, a
\* spike-sized sample at call 9 held back, and the next spike at call 10
C23_Witness ==
    /\ phase = "spike"
    /\ Len(outs) = 10
    /\ inst.refractoryPeriod > Num(1)
    /\ inst.refractoryPeriod <= Num(2)
    /\ config.step = Num(1)
    /\ outs[8].spike
    /\ ~outs[9].spike /\ SpikeSized(9)
    /\ outs[10].spike

--------------------------------------------------------------------------
(* AdaptiveNotchFilter: notchFreq is a fixed-point number of Hz, sampleRate
   a plain number of Hz *)

\* Math.cos by its series up to the eighth power (arguments within 0..pi)
Cos(x) ==
    LET x2 == Mul(x, x)
        x4 == Mul(x2, x2)
        x6 == Mul(x4, x2)
        x8 == Mul(x4, x4)
    IN  Num(1) - (x2 \div 2) + (x4 \div 24) - (x6 \div 720) + (x8 \div 40320)

AdaptiveNotchFilter_new(notchFreq, sampleRate) ==
    [kind |-> "AdaptiveNotchFilter", buffer |-> <<>>, notchFreq |-> notchFreq,
     bandwidth |-> Num(2), sampleRate |-> sampleRate, alpha |-> Milli(10)]

\* The inner loop: the sum over i >= lag of buffer[i] * buffer[i - lag]
Correlation(buffer, lag) ==
    Sum([i \in 1..(Len(buffer) - lag) |-> Mul(buffer[i + lag], buffer[i])])

\* The outer loop from `lag` on: lag < Math.min(buffer.length / 2, 32)
RECURSIVE BestLagFrom(_, _, _, _)
BestLagFrom(buffer, lag, maxCorr, bestLag) ==
    IF ~(2 * lag < Len(buffer) /\ lag < 32) THEN bestLag
    ELSE LET correlation == Correlation(buffer, lag)
         IN  IF correlation > maxCorr
             THEN BestLagFrom(buffer, lag + 1, correlation, lag)
             ELSE BestLagFrom(buffer, lag + 1, maxCorr, bestLag)

AdaptiveNotchFilter_estimatePowerLineFreq(f) ==
    IF Len(f.buffer) < 16 THEN f.notchFreq
    ELSE Div(Num(f.sampleRate), Num(BestLagFrom(f.buffer, 1, 0, 1)))

\* buffer[buffer.length - back] || 0
BufferBack(buffer, back) ==
    IF Len(buffer) - back + 1 >= 1 THEN buffer[Len(buffer) - back + 1] ELSE 0

\* ret is the returned sample; estimatedFreq exposes the local of that name
\* (the input when the early return is taken before it is computed). The
\* locals q, r, a1 and a2 are computed and never used by the return.
AdaptiveNotchFilter_process(f, input) ==
    LET pushed == Append(f.buffer, input)
        buffer == IF Len(pushed) > 64 THEN Tail(pushed) ELSE pushed
        g == [f EXCEPT !.buffer = buffer]
        estimatedFreq == AdaptiveNotchFilter_estimatePowerLineFreq(g)
        notchFreq == IF Abs(estimatedFreq - g.notchFreq) < Num(5)
                     THEN g.notchFreq + Mul(g.alpha, estimatedFreq - g.notchFreq)
                     ELSE g.notchFreq
        omega == Mul(Milli(6283), Div(notchFreq, Num(g.sampleRate)))
        b1 == -2 * Cos(omega)
        b2 == Num(1)
    IN  IF Len(buffer) < 8
        THEN [self |-> g, ret |-> input, estimatedFreq |-> g.notchFreq]
        ELSE [self |-> [g EXCEPT !.notchFreq = notchFreq],
              ret |-> input + Mul(b1, BufferBack(buffer, 2)) + Mul(b2, BufferBack(buffer, 3)),
              estimatedFreq |-> estimatedFreq]

(* Specification: one AdaptiveNotchFilter(50, 250) fed a test signal sample
   by sample; config is the signal, outs the records process produced *)

EstimatorSignals == {"tone", "constant", "alternating", "pair", "impulse32"}

\* Sample number k (from 0) of an estimator test signal
EstimatorSample(sig, k) ==
    CASE sig = "tone" -> Milli(TonePeriod[(k % 5) + 1])
      [] sig = "constant" -> Num(1)
      [] sig = "alternating" -> IF k % 2 = 0 THEN Num(1) ELSE Num(-1)
      [] sig = "pair" -> IF k % 64 = 20 THEN Num(1)
                         ELSE IF k % 64 = 21 THEN Num(-1) ELSE 0
      [] sig = "impulse32" -> IF k % 32 = 10 THEN Num(1) ELSE 0

InitEstimator ==
    /\ inst = AdaptiveNotchFilter_new(Num(50), 250)
    /\ fresh = Undefined
    /\ phase = "estimate"
    /\ calls = 0
    /\ outs = <<>>
    /\ freshOuts = <<>>
    /\ chainCalls = <<>>
    /\ data = <<>>
    /\ config \in EstimatorSignals
    /\ impl = "none"
    /\ result = <<>>
    /\ called = FALSE

\* inst.process(next sample of the signal)
FeedEstimator ==
    /\ phase = "estimate"
    /\ calls < MaxEstimate
    /\ LET p == AdaptiveNotchFilter_process(inst, EstimatorSample(config, calls))
       IN  /\ inst' = p.self
           /\ outs' = Append(outs, [ret |-> p.ret, estimatedFreq |-> p.estimatedFreq])
    /\ calls' = calls + 1
    /\ UNCHANGED <<fresh, phase, freshOuts, chainCalls, data, config, impl, result, called>>

NextEstimator == FeedEstimator

SpecEstimator == InitEstimator /\ [][NextEstimator]_vars

\* C24: once the 64-sample rolling buffer is full the estimator evaluates the
\* autocorrelation at every lag from 1 to 32 inclusive and returns sampleRate
\* divided by the lag with the greatest correlation; the buffer never holds
\* more than 64 samples.
C24_EstimatorAsStated ==
    phase = "estimate" =>
        /\ Len(inst.buffer) <= 64
        /\ Len(inst.buffer) = 64 =>
              \E best \in 1..32 :
                 /\ \A lag \in 1..32 :
                       Correlation(inst.buffer, best) >= Correlation(inst.buffer, lag)
                 /\ outs[Len(outs)].estimatedFreq = Div(Num(inst.sampleRate), Num(best))

--------------------------------------------------------------------------
(* EMGEnvelopeDetector and ProfessionalFilterChain; cut-off frequencies are
   in tenths of Hz as for ButterworthFilter, power-line frequencies in Hz *)

EMGEnvelopeDetector_new(smoothingCutoff, sampleRate) ==
    [kind |-> "EMGEnvelopeDetector",
     smoothingFilter |-> ButterworthFilter_new("lowpass", <<smoothingCutoff>>, sampleRate)]

EMGEnvelopeDetector_process(f, input) ==
    LET p == ButterworthFilter_process(f.smoothingFilter, Abs(input))
    IN  [self |-> [f EXCEPT !.smoothingFilter = p.self], ret |-> p.ret]

EMGEnvelopeDetector_reset(f) ==
    [f EXCEPT !.smoothingFilter = ButterworthFilter_reset(f.smoothingFilter)]

ProfessionalFilterChain_new(lowCutoff, highCutoff, sampleRate, powerLineFreqs, enableEMG, enableSpikes) ==
    [kind |-> "ProfessionalFilterChain",
     bandpassFilter |-> ButterworthFilter_new("bandpass", <<lowCutoff, highCutoff>>, sampleRate),
     notchFilters |-> [i \in 1..Len(powerLineFreqs) |->
                          AdaptiveNotchFilter_new(Num(powerLineFreqs[i]), sampleRate)],
     denoiser |-> WaveletDenoiser_new("db4", Milli(100), 4),
     emgDetector |-> IF enableEMG THEN EMGEnvelopeDetector_new(100, sampleRate)
                     ELSE Undefined,
     spikeDetector |-> IF enableSpikes THEN SpikeDetector_new(Milli(3500), 2, sampleRate)
                       ELSE Undefined]

\* for (const notchFilter of this.notchFilters) output = notchFilter.process(output)
RECURSIVE AdaptiveNotchLoop(_, _, _)
AdaptiveNotchLoop(notchFilters, i, output) ==
    IF i > Len(notchFilters) THEN [self |-> notchFilters, ret |-> output]
    ELSE LET p == AdaptiveNotchFilter_process(notchFilters[i], output)
         IN  AdaptiveNotchLoop([notchFilters EXCEPT ![i] = p.self], i + 1, p.ret)

\* An optional number argument that is present
Given(v) == [kind |-> "number", value |-> v]

\* timestamp is Undefined when the caller leaves it out, Given(t) otherwise
ProfessionalFilterChain_process(f, input, timestamp) ==
    LET bp == ButterworthFilter_process(f.bandpassFilter, input)
        nf == AdaptiveNotchLoop(f.notchFilters, 1, bp.ret)
        output == nf.ret
        emg == IF f.emgDetector # Undefined
               THEN EMGEnvelopeDetector_process(f.emgDetector, output)
               ELSE [self |-> Undefined, ret |-> Undefined]
        spikes == f.spikeDetector # Undefined /\ timestamp.kind # "undefined"
        sp == IF spikes THEN SpikeDetector_process(f.spikeDetector, output, timestamp.value)
              ELSE [self |-> f.spikeDetector, ret |-> Undefined]
    IN  [self |-> [f EXCEPT !.bandpassFilter = bp.self, !.notchFilters = nf.self,
                            !.emgDetector = emg.self, !.spikeDetector = sp.self],
         ret |-> [filtered |-> output,
                  emgEnvelope |-> emg.ret,
                  spike |-> IF spikes
                            THEN [detected |-> sp.ret.spike, amplitude |-> sp.ret.amplitude]
                            ELSE Undefined]]

ProfessionalFilterChain_reset(f) ==
    [f EXCEPT !.bandpassFilter = ButterworthFilter_reset(f.bandpassFilter),
              !.emgDetector = IF f.emgDetector # Undefined
                              THEN EMGEnvelopeDetector_reset(f.emgDetector)
                              ELSE Undefined]

(* Specification: a chain is fed samples, reset, and then fed further samples
   side by side with a newly constructed chain of the same parameters *)

ProSamples == {Num(3), Num(20)}

InitProChain ==
    /\ inst \in {ProfessionalFilterChain_new(5, 400, 250, <<50, 60>>, e, e) : e \in BOOLEAN}
    /\ fresh = inst
    /\ phase = "run"
    /\ calls = 0
    /\ outs = <<>>
    /\ freshOuts = <<>>
    /\ chainCalls = <<>>
    /\ BatchIdle

\* inst.process(x, timestamp)
ProProcess(x) ==
    /\ phase = "run"
    /\ calls < MaxProCalls
    /\ LET p == ProfessionalFilterChain_process(inst, x, Given(Num(calls + 1)))
       IN  /\ inst' = p.self
           /\ outs' = Append(outs, p.ret)
    /\ calls' = calls + 1
    /\ UNCHANGED <<fresh, phase, freshOuts, chainCalls, data, config, impl, result, called>>

\* inst.reset()
ProReset ==
    /\ phase = "run"
    /\ inst' = ProfessionalFilterChain_reset(inst)
    /\ phase' = "replay"
    /\ outs' = <<>>
    /\ UNCHANGED <<fresh, calls, freshOuts, chainCalls, data, config, impl, result, called>>

\* The same sample to the reset chain and to the new one
ProReplay(x) ==
    /\ phase = "replay"
    /\ Len(outs) < MaxProReplay
    /\ LET timestamp == Given(Num(calls + Len(outs) + 1))
           p == ProfessionalFilterChain_process(inst, x, timestamp)
           q == ProfessionalFilterChain_process(fresh, x, timestamp)
       IN  /\ inst' = p.self
           /\ fresh' = q.self
           /\ outs' = Append(outs, p.ret)
           /\ freshOuts' = Append(freshOuts, q.ret)
    /\ UNCHANGED <<phase, calls, chainCalls, data, config, impl, result, called>>

NextProChain ==
    \/ \E x \in ProSamples : ProProcess(x)
    \/ ProReset
    \/ \E x \in ProSamples : ProReplay(x)

SpecProChain == InitProChain /\ [][NextProChain]_vars

\* C25: after any sequence of process calls followed by reset(), process on an
\* input sequence returns the same filtered values as a newly constructed
\* ProfessionalFilterChain with the same parameters fed that sequence.
C25_ProChainResetEquivalence ==
    (phase = "replay" /\ inst.kind = "ProfessionalFilterChain") =>
        \A k \in 1..Len(outs) : outs[k].filtered = freshOuts[k].filtered

--------------------------------------------------------------------------
(* IIRFilter, signalFilters.ts:15-59, run beside a ButterworthFilter holding
   the same coefficient vectors *)

IIRFilter_new(b, a) ==
    [kind |-> "IIRFilter", b |-> b, a |-> a,
     x |-> [i \in 1..Len(b) |-> 0], y |-> [i \in 1..Len(a) |-> 0]]

\* Indices are the source's plus one: the feedback loop reads y[i - 1]
IIRFilter_process(f, input) ==
    LET x == ShiftIn(f.x, input)
        forward == Sum([i \in 1..Len(f.b) |-> Mul(f.b[i], x[i])])
        feedback == Sum([i \in 1..(Len(f.a) - 1) |-> Mul(f.a[i + 1], f.y[i])])
        output == Div(forward - feedback, f.a[1])
    IN  [self |-> [f EXCEPT !.x = x, !.y = ShiftIn(f.y, output)], ret |-> output]

IIRFilter_reset(f) ==
    [f EXCEPT !.x = [i \in 1..Len(f.x) |-> 0], !.y = [i \in 1..Len(f.y) |-> 0]]

InitIIR ==
    /\ inst \in {ButterworthFilter_new("lowpass", <<400>>, 250),
                 ButterworthFilter_new("lowpass", <<100>>, 250),
                 ButterworthFilter_new("highpass", <<5>>, 250),
                 ButterworthFilter_new("bandpass", <<5, 400>>, 250)}
    /\ fresh = IIRFilter_new(inst.b, inst.a)
    /\ phase = "iir"
    /\ calls = 0
    /\ outs = <<>>
    /\ freshOuts = <<>>
    /\ chainCalls = <<>>
    /\ BatchIdle

\* The same sample to the ButterworthFilter and to the IIRFilter
FeedIIR(x) ==
    /\ phase = "iir"
    /\ calls < MaxIIR
    /\ LET p == ButterworthFilter_process(inst, x)
           q == IIRFilter_process(fresh, x)
       IN  /\ inst' = p.self
           /\ fresh' = q.self
           /\ outs' = Append(outs, p.ret)
           /\ freshOuts' = Append(freshOuts, q.ret)
    /\ calls' = calls + 1
    /\ UNCHANGED <<phase, chainCalls, data, config, impl, result, called>>

NextIIR == \E x \in Samples : FeedIIR(x)

SpecIIR == InitIIR /\ [][NextIIR]_vars

\* C26: ButterworthFilter.process implements the direct-form difference
\* equation y[n] = sum b[i]*x[n-i] - sum a[i]*y[n-i]: for equal coefficient
\* vectors with a[0] = 1 and any input sequence it produces the same outputs
\* as IIRFilter.process.
C26_ButterworthMatchesIIR ==
    (phase = "iir" /\ inst.a[1] = Num(1) /\ inst.a = fresh.a /\ inst.b = fresh.b)
        => outs = freshOuts

--------------------------------------------------------------------------
\* C27: assessProfessionalSignalQuality terminates and returns a result for
\* every input of at least 100 samples and every positive sampleRate, also
\* below 50 where the power-line window size floor(sampleRate / 50) is 0: a
\* call on such an input that has left the statistics and the loop has
\* returned its metrics.
C27_ReturnsForEveryRate ==
    (/\ phase \in {"done", "thrown"}
     /\ Len(data) >= 100
     /\ config.sampleRate > 0)
        => (phase = "done" /\ called /\ result.recommendation \in
               {"excellent", "good", "fair", "poor", "unusable"})

--------------------------------------------------------------------------
(* Specification of chains with artifact removal enabled, fed a few samples
   with every call recorded in chainCalls *)

ArtifactSamples == {Num(3), Num(300), Num(-300)}

InitArtifact ==
    /\ inst \in {EnhancedFilterChain_new(c) :
                    c \in {cc \in ChainConfigs : Flag(cc, "enableArtifactRemoval")}}
    /\ fresh = Undefined
    /\ phase = "artifact"
    /\ calls = 0
    /\ outs = <<>>
    /\ freshOuts = <<>>
    /\ chainCalls = <<>>
    /\ BatchIdle

\* inst.process(x)
ArtifactProcess(x) ==
    /\ phase = "artifact"
    /\ calls < MaxArtifact
    /\ LET p == EnhancedFilterChain_process(inst, x)
       IN  /\ inst' = p.self
           /\ outs' = Append(outs, p.ret)
           /\ chainCalls' = Append(chainCalls, CallRecord(p))
    /\ calls' = calls + 1
    /\ UNCHANGED <<fresh, phase, freshOuts, data, config, impl, result, called>>

NextArtifact == \E x \in ArtifactSamples : ArtifactProcess(x)

SpecArtifact == InitArtifact /\ [][NextArtifact]_vars

\* Magnitude of the stage-3 output of call k
Stage3Magnitude(k) == Abs(Stage3Output(chainCalls[k]))

\* C28: with artifact removal enabled the detector buffers the magnitude of
\* the unsuppressed stage-3 output, not the 0 that replaces it; so an isolated
\* stage-3 sample whose magnitude exceeds both neighbours' magnitudes by more
\* than the threshold (200) makes that sample and the next one come out as 0.
C28_IsolatedSpikeZeroesTwo ==
    phase = "artifact" =>
        /\ inst.artifactDetector.buffer
              = LastOf([k \in 1..Len(chainCalls) |-> Stage3Magnitude(k)],
                       inst.artifactDetector.windowSize)
        /\ \A k \in 2..(Len(chainCalls) - 1) :
              (/\ Stage3Magnitude(k) - Stage3Magnitude(k - 1) > Num(200)
               /\ Stage3Magnitude(k) - Stage3Magnitude(k + 1) > Num(200))
                  => (chainCalls[k].ret = 0 /\ chainCalls[k + 1].ret = 0)

\* A main filter in the chain; an isolated stage-3 sample below the saturation
\* level of 400 is zeroed, and so is the small non-zero sample after it
C28_Witness ==
    /\ phase = "artifact"
    /\ inst.mainFilter # Undefined
    /\ Len(chainCalls) = 3
    /\ Stage3Magnitude(2) - Stage3Magnitude(1) > Num(200)
    /\ Stage3Magnitude(2) - Stage3Magnitude(3) > Num(200)
    /\ Stage3Magnitude(2) < Num(400)
    /\ Stage3Magnitude(3) # 0
    /\ Stage3Magnitude(3) < Num(200)
    /\ chainCalls[2].ret = 0
    /\ chainCalls[3].ret = 0

--------------------------------------------------------------------------
(* The professional viewer's two effects, EegWaveformViewer.tsx:391-463.
   Every object the component holds in state has an identity, a number, for
   React compares the dependencies of an effect by identity:
     data    rawTimeseriesData  [id, entries], entries in timestamp order
     inst    filterChains       [id, chains]
     result  processedData      [id, buffers]
     outs    signalQuality
     config  the dependencies the processing effect last ran with
     fresh   the next unused identity
     called  the component has mounted
     calls   runs of the processing effect
     chainCalls  one record per sample appended to a processed buffer
   timeScale, filterConfig and visibleChannels are never set in these runs. *)

ViewerFilterConfig ==
    [type |-> "advanced", lowCutoff |-> 5, highCutoff |-> 400, samplingRate |-> 250,
     enableDCBlock |-> TRUE, enableArtifactRemoval |-> TRUE,
     enablePowerLineRemoval |-> TRUE]

ViewerTimeScale == 10

\* One entry of rawTimeseriesData: a reading of the 12-bit converter for each
\* channel it carries (active 100, floating 4095, grounded 0, normal 5)
RawEntries ==
    [ChannelSet -> {Num(100), Num(4095)}] \cup [{"ch1"} -> {0, Num(5)}]

SignalType(rawValue) ==
    IF rawValue = Num(4095) THEN "floating"
    ELSE IF rawValue = 0 THEN "grounded"
    ELSE IF rawValue > Num(10) /\ rawValue < Num(4080) THEN "active"
    ELSE "normal"

\* The dependency array, by identity
ViewerDeps ==
    [rawTimeseriesData |-> data.id, filterChains |-> inst.id, processedData |-> result.id]

\* lines 422-435: the value appended for a channel of the latest entry
ViewerFilteredValue(chains, latest, ch) ==
    IF SignalType(latest[ch]) = "active"
    THEN EnhancedFilterChain_process(chains[ch], latest[ch]).ret
    ELSE IF SignalType(latest[ch]) = "floating" THEN 0
    ELSE latest[ch]

\* lines 441-449: the channel's rolling buffer with the value appended
ViewerBuffer(processed, chains, latest, ch) ==
    LET old == IF ch \in DOMAIN processed.buffers THEN processed.buffers[ch] ELSE <<>>
        maxPoints == ViewerFilterConfig.samplingRate * ViewerTimeScale
    IN  LastOf(Append(old, ViewerFilteredValue(chains, latest, ch)), maxPoints)

\* lines 451-457: the quality record of a channel
ViewerQuality(buffer, signalType) ==
    IF Len(buffer) > 100
    THEN [signalType |-> signalType, quality |-> assessSignalQuality(LastOf(buffer, 100))]
    ELSE [signalType |-> signalType]

\* One record per handled channel, in the order of Object.keys(visibleChannels)
RECURSIVE ViewerAppended(_, _, _)
ViewerAppended(i, handled, raw) ==
    IF i > Len(Channels) THEN <<>>
    ELSE (IF Channels[i] \in handled
          THEN <<[channel |-> Channels[i], raw |-> raw.id, entry |-> Len(raw.entries)]>>
          ELSE <<>>) \o ViewerAppended(i + 1, handled, raw)

\* The body of the processing effect run with the values of one render;
\* newId is the identity of the object { ...processedData }
ProcessingEffect(raw, chains, processed, newId) ==
    IF Len(raw.entries) = 0
    THEN [set |-> FALSE, chains |-> chains, processedData |-> processed,
          signalQuality |-> outs, appended |-> <<>>]
    ELSE
    LET latest == raw.entries[Len(raw.entries)]
        handled == {ch \in ChannelSet : ch \in DOMAIN latest /\ ch \in DOMAIN chains}
    IN  [set |-> TRUE,
         chains |-> [ch \in DOMAIN chains |->
                        IF ch \in handled /\ SignalType(latest[ch]) = "active"
                        THEN EnhancedFilterChain_process(chains[ch], latest[ch]).self
                        ELSE chains[ch]],
         processedData |->
             [id |-> newId,
              buffers |-> [ch \in (DOMAIN processed.buffers) \cup handled |->
                              IF ch \in handled
                              THEN ViewerBuffer(processed, chains, latest, ch)
                              ELSE processed.buffers[ch]]],
         signalQuality |->
             [ch \in handled |->
                 ViewerQuality(ViewerBuffer(processed, chains, latest, ch),
                               SignalType(latest[ch]))],
         appended |-> ViewerAppended(1, handled, raw)]

InitViewer ==
    /\ data \in {[id |-> 0, entries |-> <<>>]}
                \cup {[id |-> 0, entries |-> <<e>>] : e \in RawEntries}
    /\ inst = [id |-> 1, chains |-> <<>>]
    /\ result = [id |-> 2, buffers |-> <<>>]
    /\ outs = <<>>
    /\ config = Undefined
    /\ fresh = 3
    /\ called = FALSE
    /\ calls = 0
    /\ chainCalls = <<>>
    /\ phase = "viewer"
    /\ freshOuts = <<>>
    /\ impl = "none"

\* The first commit: the effect of lines 391-397 builds the chains and the
\* processing effect runs with the values of the first render
Mount ==
    /\ phase = "viewer"
    /\ ~called
    /\ LET e == ProcessingEffect(data, inst.chains, result, fresh + 1)
       IN  /\ inst' = [id |-> fresh,
                       chains |-> [ch \in ChannelSet |->
                                      EnhancedFilterChain_new(ViewerFilterConfig)]]
           /\ result' = e.processedData
           /\ outs' = e.signalQuality
           /\ chainCalls' = chainCalls \o e.appended
    /\ config' = ViewerDeps
    /\ fresh' = fresh + 2
    /\ called' = TRUE
    /\ calls' = calls + 1
    /\ UNCHANGED <<phase, freshOuts, data, impl>>

\* useFirebaseData delivers a new rawTimeseriesData with one more entry
DataArrives(entry) ==
    /\ phase = "viewer"
    /\ Len(data.entries) < MaxArrivals
    /\ data' = [id |-> fresh, entries |-> Append(data.entries, entry)]
    /\ fresh' = fresh + 1
    /\ UNCHANGED <<inst, phase, calls, outs, freshOuts, chainCalls, config, impl,
                   result, called>>

\* A commit in which some dependency differs from the last run's
RunProcessingEffect ==
    /\ phase = "viewer"
    /\ called
    /\ ViewerDeps # config
    /\ calls < MaxEffectRuns
    /\ LET e == ProcessingEffect(data, inst.chains, result, fresh)
       IN  /\ inst' = [inst EXCEPT !.chains = e.chains]
           /\ result' = e.processedData
           /\ outs' = e.signalQuality
           /\ chainCalls' = chainCalls \o e.appended
           /\ fresh' = IF e.set THEN fresh + 1 ELSE fresh
    /\ config' = ViewerDeps
    /\ calls' = calls + 1
    /\ UNCHANGED <<phase, freshOuts, data, impl, called>>

NextViewer ==
    \/ Mount
    \/ \E entry \in RawEntries : DataArrives(entry)
    \/ RunProcessingEffect

SpecViewer == InitViewer /\ [][NextViewer]_vars

\* C29: each newly arrived latest sample of a channel is passed through the
\* channel's chain and appended to the channel's processed buffer exactly
\* once; the processing effect does not run again merely because of the
\* processedData update it performed itself.
C29_EachSampleAppendedOnce ==
    phase = "viewer" =>
        /\ \A i, j \in 1..Len(chainCalls) :
              (/\ chainCalls[i].channel = chainCalls[j].channel
               /\ chainCalls[i].entry = chainCalls[j].entry) => i = j
        /\ (called /\ config # Undefined /\ ViewerDeps # config)
              => \/ config.rawTimeseriesData # data.id
                 \/ config.filterChains # inst.id

--------------------------------------------------------------------------
\* C30: an EnhancedFilterChain built with type 'none', 'bandpass' or 'advanced'
\* and with all three enable flags off owns no stages: process returns every
\* input sample unchanged, for any input sequence.
C30_NoStagesIsIdentity ==
    (/\ IsChain
     /\ inst.config.type \in {"none", "bandpass", "advanced"}
     /\ \A name \in FlagNames : ~Flag(inst.config, name))
        => /\ \A member \in {"dcBlocker", "artifactDetector", "powerLineFilter",
                            "mainFilter"} : inst[member] = Undefined
           /\ \A k \in 1..Len(chainCalls) :
                 /\ chainCalls[k].trace = <<>>
                 /\ chainCalls[k].ret = chainCalls[k].input
           /\ Len(outs) = Len(chainCalls)
           /\ \A k \in 1..Len(outs) : outs[k] = chainCalls[k].input

\* A 'bandpass' chain without flags, reset after earlier calls, has returned
\* two different samples as they came, one of them above the artifact level
C30_Witness ==
    /\ IsChain
    /\ inst.config.type = "bandpass"
    /\ \A name \in FlagNames : ~Flag(inst.config, name)
    /\ phase = "replay"
    /\ calls = MaxCalls
    /\ Len(chainCalls) >= 2
    /\ chainCalls[1].input = Num(500)
    /\ chainCalls[2].input = Num(3)
    /\ outs[1] = Num(500)
    /\ outs[2] = Num(3)

==========================================================================
